---- MODULE Spec2Model ----
(***************************************************************************)
(* A model of the Game Boy core of this repository: the memory bus         *)
(* (memory_bus.rs, memory_map.rs, gpu.rs), the register file               *)
(* (cpu/registers.rs), the decoder and the execution engine (cpu/mod.rs,   *)
(* cpu/instructions.rs).                                                   *)
(*                                                                         *)
(* Arrays are kept sparse: a store is a function from the offsets that     *)
(* hold a non-zero byte to that byte; every other offset below the         *)
(* array's length reads as 0 (all arrays are zero-initialised), and an     *)
(* offset at or past the length is Rust's index-out-of-bounds panic.       *)
(* A panic ends the run: it is recorded in `status` and no operation is    *)
(* enabled afterwards.                                                     *)
(***************************************************************************)
EXTENDS Integers, Sequences, FiniteSets, TLC

VARIABLES
    registers,        \* Cpu.registers: a, b, c, d, e, h, l and the flags f
    pc,               \* Cpu.pc
    sp,               \* Cpu.sp
    bus,              \* Cpu.bus: the MemoryBus with its GPU
    is_halted,        \* Cpu.is_halted
    overflow_checks,  \* build profile: TRUE when integer overflow panics (debug)
    status,           \* "running", or the panic that ended the run
    last,             \* the last operation performed, with its inputs and result
    steps             \* number of operations performed so far

vars == <<registers, pc, sp, bus, is_halted, overflow_checks, status, last, steps>>

-----------------------------------------------------------------------------
(* Bounds of the model *)

\* steps of the CPU per run
MaxSteps == 3

\* length of the program loaded before the first step
ProgLen == 3

\* cells a host may have made non-zero through the bus
MaxCells == 1

\* 16-bit operands are taken within this distance of the carry boundaries
WordEdge == 2

\* writes to video memory in one run
MaxVramWrites == 2

\* instructions run in a row on one bit of one register
MaxBitSteps == 2

\* rotates run in a row on one register
MaxRotates == 8

-----------------------------------------------------------------------------
(* Integer helpers: u8 and u16 arithmetic *)

U8 == 0..255

Pow2(n) == 2^n

\* bit i of x
BitOf(x, i) == (x \div Pow2(i)) % 2

\* the element of a one-element set: The({e(x) : x \in {v}}) is e with x bound to v
The(S) == CHOOSE v \in S : TRUE

RECURSIVE AndBits(_, _, _)
AndBits(x, y, n) ==
    IF n = 0 THEN 0
    ELSE (x % 2) * (y % 2) + 2 * AndBits(x \div 2, y \div 2, n - 1)

RECURSIVE OrBits(_, _, _)
OrBits(x, y, n) ==
    IF n = 0 THEN 0
    ELSE (IF (x % 2) + (y % 2) > 0 THEN 1 ELSE 0) + 2 * OrBits(x \div 2, y \div 2, n - 1)

RECURSIVE XorBits(_, _, _)
XorBits(x, y, n) ==
    IF n = 0 THEN 0
    ELSE ((x + y) % 2) + 2 * XorBits(x \div 2, y \div 2, n - 1)

-----------------------------------------------------------------------------
(* memory_map.rs *)

BOOT_ROM_START == 0
BOOT_ROM_END == 255
BOOT_ROM_SIZE == BOOT_ROM_END - BOOT_ROM_START + 1

GAME_ROM_BANK_0_START == 0
GAME_ROM_BANK_0_END == 16383
GAME_ROM_BANK_0_SIZE == GAME_ROM_BANK_0_END - GAME_ROM_BANK_0_START

GAME_ROM_BANK_N_START == 16384
GAME_ROM_BANK_N_END == 32767
GAME_ROM_BANK_N_SIZE == GAME_ROM_BANK_N_END - GAME_ROM_BANK_N_START

CARTRIDGE_RAM_START == 40960
CARTRIDGE_RAM_END == 49151
CARTRIDGE_RAM_SIZE == CARTRIDGE_RAM_END - CARTRIDGE_RAM_START + 1

WORKING_RAM_START == 49152
WORKING_RAM_END == 57343
WORKING_RAM_SIZE == WORKING_RAM_END - WORKING_RAM_START + 1

ECHO_RAM_START == 57344
ECHO_RAM_END == 65023

OAM_START == 65024
OAM_END == 65183
OAM_SIZE == OAM_END - OAM_START + 1

UNUSED_MEMORY_START == 65184
UNUSED_MEMORY_END == 65279

IO_REGISTER_START == 65280
IO_REGISTER_END == 65407

HIGH_RAM_START == 65408
HIGH_RAM_END == 65534
HIGH_RAM_SIZE == HIGH_RAM_END - HIGH_RAM_START + 1

INTERRUPT_ENABLE_REGISTER == 65535

(* gpu.rs *)

VRAM_BEGIN == 32768
VRAM_END == 40959
VRAM_SIZE == VRAM_END - VRAM_BEGIN + 1
TILESET_STORAGE_END == 6144
TILE_COUNT == 384

-----------------------------------------------------------------------------
(* Sparse zero-initialised arrays *)

\* [0; N]
EmptyStore == [i \in {} |-> 0]

\* array[index] of an array of length size: the byte, or the panic
Index(store, size, index) ==
    IF index >= size THEN [panic |-> "index_out_of_bounds", value |-> 0]
    ELSE [panic |-> "none",
          value |-> IF index \in DOMAIN store THEN store[index] ELSE 0]

\* array[index] = value, for index < size
Store(store, index, value) ==
    [i \in (IF value = 0 THEN DOMAIN store \ {index} ELSE DOMAIN store \cup {index})
        |-> IF i = index THEN value ELSE store[i]]

\* the successful result of a read
Ok(value) == [panic |-> "none", value |-> value]

\* the result of a read that panicked
Panicked(kind) == [panic |-> kind, value |-> 0]

-----------------------------------------------------------------------------
(* gpu.rs: the video memory and the tile cache *)

\* enum TilePixelValue
TilePixelValue == {"Zero", "One", "Two", "Three"}

\* one row of empty_tile()
EmptyRow == [pixel_index \in 0..7 |-> "Zero"]

\* GPU::default(); tile_set holds the rows that differ from empty_tile()
GpuDefault == [vram |-> EmptyStore, tile_set |-> [k \in {} |-> EmptyRow], oam |-> EmptyStore]

\* tile_set[tile_index][row_index]
TileRow(gpu, tile_index, row_index) ==
    IF <<tile_index, row_index>> \in DOMAIN gpu.tile_set
    THEN gpu.tile_set[<<tile_index, row_index>>]
    ELSE EmptyRow

\* GPU::read_vram
read_vram(gpu, address) == Index(gpu.vram, VRAM_SIZE, address)

\* the match of GPU::write_vram with the two bit planes exchanged
PixelValue_planes_exchanged(byte1, byte2, pixel_index) ==
    LET lsb == BitOf(byte2, 7 - pixel_index)
        msb == BitOf(byte1, 7 - pixel_index)
    IN  IF lsb = 0 /\ msb = 0 THEN "Zero"
        ELSE IF lsb # 0 /\ msb = 0 THEN "One"
        ELSE IF lsb = 0 /\ msb # 0 THEN "Two"
        ELSE "Three"

\* the match (lsb != 0, msb != 0) of GPU::write_vram
PixelValue(byte1, byte2, pixel_index) ==
    LET lsb == BitOf(byte1, 7 - pixel_index)
        msb == BitOf(byte2, 7 - pixel_index)
    IN  IF lsb = 0 /\ msb = 0 THEN "Zero"
        ELSE IF lsb # 0 /\ msb = 0 THEN "One"
        ELSE IF lsb = 0 /\ msb # 0 THEN "Two"
        ELSE "Three"

\* write_vram with a row of the tile for every byte, not for every two bytes
write_vram_row_per_byte(gpu, address, value) ==
    IF address >= VRAM_SIZE THEN [panic |-> "index_out_of_bounds", gpu |-> gpu]
    ELSE IF address >= TILESET_STORAGE_END
    THEN [panic |-> "none", gpu |-> [gpu EXCEPT !.vram = Store(gpu.vram, address, value)]]
    ELSE The({
        LET normalized_address == address - (address % 2)
            byte1 == Index(vram1, VRAM_SIZE, normalized_address).value
            byte2 == Index(vram1, VRAM_SIZE, normalized_address + 1).value
            tile_index == address \div 16
            row_index == address % 8
        IN  The({
            IF tile_index >= TILE_COUNT
            THEN [panic |-> "index_out_of_bounds", gpu |-> [gpu EXCEPT !.vram = vram1]]
            ELSE [panic |-> "none",
                  gpu |-> [gpu EXCEPT
                      !.vram = vram1,
                      !.tile_set = [k \in (IF row = EmptyRow
                                           THEN DOMAIN gpu.tile_set \ {<<tile_index, row_index>>}
                                           ELSE DOMAIN gpu.tile_set \cup {<<tile_index, row_index>>})
                                    |-> IF k = <<tile_index, row_index>> THEN row
                                        ELSE gpu.tile_set[k]]]]
            : row \in {[pixel_index \in 0..7 |-> PixelValue(byte1, byte2, pixel_index)]} })
        : vram1 \in {Store(gpu.vram, address, value)} })

\* GPU::write_vram: the new GPU, or the panic
write_vram(gpu, address, value) ==
    IF address >= VRAM_SIZE THEN [panic |-> "index_out_of_bounds", gpu |-> gpu]
    ELSE IF address >= TILESET_STORAGE_END
    THEN [panic |-> "none", gpu |-> [gpu EXCEPT !.vram = Store(gpu.vram, address, value)]]
    ELSE The({
        LET normalized_address == address - (address % 2)
            byte1 == Index(vram1, VRAM_SIZE, normalized_address).value
            byte2 == Index(vram1, VRAM_SIZE, normalized_address + 1).value
            tile_index == address \div 16
            row_index == (address % 16) \div 2
        IN  The({
            IF tile_index >= TILE_COUNT
            THEN [panic |-> "index_out_of_bounds", gpu |-> [gpu EXCEPT !.vram = vram1]]
            ELSE [panic |-> "none",
                  gpu |-> [gpu EXCEPT
                      !.vram = vram1,
                      !.tile_set = [k \in (IF row = EmptyRow
                                           THEN DOMAIN gpu.tile_set \ {<<tile_index, row_index>>}
                                           ELSE DOMAIN gpu.tile_set \cup {<<tile_index, row_index>>})
                                    |-> IF k = <<tile_index, row_index>> THEN row
                                        ELSE gpu.tile_set[k]]]]
            : row \in {[pixel_index \in 0..7 |-> PixelValue(byte1, byte2, pixel_index)]} })
        : vram1 \in {Store(gpu.vram, address, value)} })

\* GPU::read_oam
read_oam(gpu, address) == Index(gpu.oam, OAM_SIZE, address)

\* write_oam that stores the byte in OAM
write_oam_stored(gpu, address, value) ==
    [panic |-> "none", gpu |-> [gpu EXCEPT !.oam = Store(gpu.oam, address, value)]]

\* GPU::write_oam: todo!()
write_oam(gpu, address, value) == [panic |-> "not_yet_implemented", gpu |-> gpu]

-----------------------------------------------------------------------------
(* memory_bus.rs *)

\* MemoryBus::default(), with a boot ROM and a cartridge image loaded
BusWith(boot, mapped, bank0) ==
    [boot_rom |-> [some |-> mapped, data |-> boot],
     rom_bank_0 |-> bank0,
     rom_bank_n |-> EmptyStore,
     cartridge_ram |-> EmptyStore,
     working_ram |-> EmptyStore,
     high_ram |-> EmptyStore,
     gpu |-> GpuDefault]

\* MemoryBus::default()
BusDefault == BusWith(EmptyStore, TRUE, EmptyStore)

\* MemoryBus::read_io_register: todo!()
read_io_register(b, address) == Panicked("not_yet_implemented")

\* MemoryBus::write_io_register: todo!()
write_io_register(b, address, value) == [panic |-> "not_yet_implemented", bus |-> b]

\* MemoryBus::interrupt_enable: todo!()
interrupt_enable(b) == Panicked("not_yet_implemented")

InRange(address, first, lastAddr) == first <= address /\ address <= lastAddr

\* read_region with the arm of the boot ROM left out
read_region_without_boot_rom(address) ==
    IF InRange(address, GAME_ROM_BANK_0_START, GAME_ROM_BANK_0_END) THEN "GAME_ROM_BANK_0"
    ELSE IF InRange(address, GAME_ROM_BANK_N_START, GAME_ROM_BANK_N_END) THEN "GAME_ROM_BANK_N"
    ELSE IF InRange(address, VRAM_BEGIN, VRAM_END) THEN "VRAM"
    ELSE IF InRange(address, CARTRIDGE_RAM_START, CARTRIDGE_RAM_END) THEN "CARTRIDGE_RAM"
    ELSE IF InRange(address, WORKING_RAM_START, WORKING_RAM_END) THEN "WORKING_RAM"
    ELSE IF InRange(address, ECHO_RAM_START, ECHO_RAM_END) THEN "ECHO_RAM"
    ELSE IF InRange(address, OAM_START, OAM_END) THEN "OAM"
    ELSE IF InRange(address, IO_REGISTER_START, IO_REGISTER_END) THEN "IO_REGISTER"
    ELSE IF InRange(address, UNUSED_MEMORY_START, UNUSED_MEMORY_END) THEN "UNUSED_MEMORY"
    ELSE IF InRange(address, HIGH_RAM_START, HIGH_RAM_END) THEN "HIGH_RAM"
    ELSE IF address = INTERRUPT_ENABLE_REGISTER THEN "INTERRUPT_ENABLE_REGISTER"
    ELSE "unreachable"

\* the arm of the match in MemoryBus::read_byte that takes the address
read_region(address) ==
    IF InRange(address, BOOT_ROM_START, BOOT_ROM_END) THEN "BOOT_ROM"
    ELSE IF InRange(address, GAME_ROM_BANK_0_START, GAME_ROM_BANK_0_END) THEN "GAME_ROM_BANK_0"
    ELSE IF InRange(address, GAME_ROM_BANK_N_START, GAME_ROM_BANK_N_END) THEN "GAME_ROM_BANK_N"
    ELSE IF InRange(address, VRAM_BEGIN, VRAM_END) THEN "VRAM"
    ELSE IF InRange(address, CARTRIDGE_RAM_START, CARTRIDGE_RAM_END) THEN "CARTRIDGE_RAM"
    ELSE IF InRange(address, WORKING_RAM_START, WORKING_RAM_END) THEN "WORKING_RAM"
    ELSE IF InRange(address, ECHO_RAM_START, ECHO_RAM_END) THEN "ECHO_RAM"
    ELSE IF InRange(address, OAM_START, OAM_END) THEN "OAM"
    ELSE IF InRange(address, IO_REGISTER_START, IO_REGISTER_END) THEN "IO_REGISTER"
    ELSE IF InRange(address, UNUSED_MEMORY_START, UNUSED_MEMORY_END) THEN "UNUSED_MEMORY"
    ELSE IF InRange(address, HIGH_RAM_START, HIGH_RAM_END) THEN "HIGH_RAM"
    ELSE IF address = INTERRUPT_ENABLE_REGISTER THEN "INTERRUPT_ENABLE_REGISTER"
    ELSE "unreachable"

\* MemoryBus::read_byte: the byte, or the panic
read_byte(b, address) ==
    The({
        CASE region = "BOOT_ROM" ->
                IF b.boot_rom.some
                THEN Index(b.boot_rom.data, BOOT_ROM_SIZE, address)
                ELSE Index(b.rom_bank_0, GAME_ROM_BANK_0_SIZE, address)
          [] region = "GAME_ROM_BANK_0" -> Index(b.rom_bank_0, GAME_ROM_BANK_0_SIZE, address)
          [] region = "GAME_ROM_BANK_N" -> Index(b.rom_bank_n, GAME_ROM_BANK_N_SIZE, address)
          [] region = "VRAM" -> read_vram(b.gpu, address)
          [] region = "CARTRIDGE_RAM" ->
                Index(b.cartridge_ram, CARTRIDGE_RAM_SIZE, address - CARTRIDGE_RAM_START)
          [] region = "WORKING_RAM" ->
                Index(b.working_ram, WORKING_RAM_SIZE, address - WORKING_RAM_START)
          [] region = "ECHO_RAM" ->
                Index(b.working_ram, WORKING_RAM_SIZE, address - ECHO_RAM_START)
          [] region = "OAM" -> read_oam(b.gpu, address - OAM_START)
          [] region = "IO_REGISTER" -> read_io_register(b, address - IO_REGISTER_START)
          [] region = "UNUSED_MEMORY" -> Ok(0)
          [] region = "HIGH_RAM" -> Index(b.high_ram, HIGH_RAM_SIZE, address - HIGH_RAM_START)
          [] region = "INTERRUPT_ENABLE_REGISTER" -> interrupt_enable(b)
          [] OTHER -> Panicked("unreachable")
        : region \in {read_region(address)} })

\* write_region with the arm of the unusable partition left out
write_region_without_unusable(address) ==
    IF InRange(address, GAME_ROM_BANK_0_START, GAME_ROM_BANK_0_END) THEN "GAME_ROM_BANK_0"
    ELSE IF InRange(address, VRAM_BEGIN, VRAM_END) THEN "VRAM"
    ELSE IF InRange(address, CARTRIDGE_RAM_START, CARTRIDGE_RAM_END) THEN "CARTRIDGE_RAM"
    ELSE IF InRange(address, WORKING_RAM_START, WORKING_RAM_END) THEN "WORKING_RAM"
    ELSE IF InRange(address, OAM_START, OAM_END) THEN "OAM"
    ELSE IF InRange(address, IO_REGISTER_START, IO_REGISTER_END) THEN "IO_REGISTER"
    ELSE IF InRange(address, HIGH_RAM_START, HIGH_RAM_END) THEN "HIGH_RAM"
    ELSE IF address = INTERRUPT_ENABLE_REGISTER THEN "INTERRUPT_ENABLE_REGISTER"
    ELSE "unreachable"

\* the arm of the match in MemoryBus::write_byte that takes the address
write_region(address) ==
    IF InRange(address, GAME_ROM_BANK_0_START, GAME_ROM_BANK_0_END) THEN "GAME_ROM_BANK_0"
    ELSE IF InRange(address, VRAM_BEGIN, VRAM_END) THEN "VRAM"
    ELSE IF InRange(address, CARTRIDGE_RAM_START, CARTRIDGE_RAM_END) THEN "CARTRIDGE_RAM"
    ELSE IF InRange(address, WORKING_RAM_START, WORKING_RAM_END) THEN "WORKING_RAM"
    ELSE IF InRange(address, OAM_START, OAM_END) THEN "OAM"
    ELSE IF InRange(address, IO_REGISTER_START, IO_REGISTER_END) THEN "IO_REGISTER"
    ELSE IF InRange(address, UNUSED_MEMORY_START, UNUSED_MEMORY_END) THEN "UNUSED_MEMORY"
    ELSE IF InRange(address, HIGH_RAM_START, HIGH_RAM_END) THEN "HIGH_RAM"
    ELSE IF address = INTERRUPT_ENABLE_REGISTER THEN "INTERRUPT_ENABLE_REGISTER"
    ELSE "unreachable"

\* array[index] = value of a field of the bus: the new bus, or the panic
StoreIn(b, field, size, index, value) ==
    IF index >= size THEN [panic |-> "index_out_of_bounds", bus |-> b]
    ELSE [panic |-> "none", bus |-> [b EXCEPT ![field] = Store(b[field], index, value)]]

\* MemoryBus::write_byte: the new bus, or the panic
write_byte(b, address, value) ==
    The({
        CASE region = "GAME_ROM_BANK_0" ->
                StoreIn(b, "rom_bank_0", GAME_ROM_BANK_0_SIZE, address, value)
          [] region = "VRAM" ->
                The({ [panic |-> w.panic, bus |-> [b EXCEPT !.gpu = w.gpu]]
                      : w \in {write_vram(b.gpu, address - VRAM_BEGIN, value)} })
          [] region = "CARTRIDGE_RAM" ->
                StoreIn(b, "cartridge_ram", CARTRIDGE_RAM_SIZE,
                        address - CARTRIDGE_RAM_START, value)
          [] region = "WORKING_RAM" ->
                StoreIn(b, "working_ram", WORKING_RAM_SIZE, address - WORKING_RAM_START, value)
          [] region = "OAM" ->
                The({ [panic |-> w.panic, bus |-> [b EXCEPT !.gpu = w.gpu]]
                      : w \in {write_oam(b.gpu, address - OAM_START, value)} })
          [] region = "IO_REGISTER" -> write_io_register(b, address - IO_REGISTER_START, value)
          [] region = "UNUSED_MEMORY" -> [panic |-> "none", bus |-> b]
          [] region = "HIGH_RAM" ->
                StoreIn(b, "high_ram", HIGH_RAM_SIZE, address - HIGH_RAM_START, value)
          [] region = "INTERRUPT_ENABLE_REGISTER" -> [panic |-> "not_yet_implemented", bus |-> b]
          [] OTHER -> [panic |-> "unreachable", bus |-> b]
        : region \in {write_region(address)} })

-----------------------------------------------------------------------------
(* cpu/registers.rs *)

\* FlagsRegister::default()
FlagsDefault == [zero |-> FALSE, subtract |-> FALSE, half_carry |-> FALSE, carry |-> FALSE]

\* Registers::default()
RegistersDefault ==
    [a |-> 0, b |-> 0, c |-> 0, d |-> 0, e |-> 0, f |-> FlagsDefault, h |-> 0, l |-> 0]

ZERO_FLAG_BYTE_POSITION == 7
SUBTRACT_FLAG_BYTE_POSITION == 6
HALF_CARRY_FLAG_BYTE_POSITION == 5
CARRY_FLAG_BYTE_POSITION == 4

\* if flag { 1 } else { 0 }
BoolBit(flag) == IF flag THEN 1 ELSE 0

\* the flags-to-byte conversion with carry placed at bit 3
FlagsToByte_carry_at_bit3(flag) ==
    BoolBit(flag.zero) * Pow2(ZERO_FLAG_BYTE_POSITION)
    + BoolBit(flag.subtract) * Pow2(SUBTRACT_FLAG_BYTE_POSITION)
    + BoolBit(flag.half_carry) * Pow2(HALF_CARRY_FLAG_BYTE_POSITION)
    + BoolBit(flag.carry) * Pow2(CARRY_FLAG_BYTE_POSITION - 1)

\* impl From<FlagsRegister> for u8
FlagsToByte(flag) ==
    BoolBit(flag.zero) * Pow2(ZERO_FLAG_BYTE_POSITION)
    + BoolBit(flag.subtract) * Pow2(SUBTRACT_FLAG_BYTE_POSITION)
    + BoolBit(flag.half_carry) * Pow2(HALF_CARRY_FLAG_BYTE_POSITION)
    + BoolBit(flag.carry) * Pow2(CARRY_FLAG_BYTE_POSITION)

\* the byte-to-flags conversion with zero taken from bit 3
ByteToFlags_zero_from_bit3(byte) ==
    [zero |-> BitOf(byte, ZERO_FLAG_BYTE_POSITION - 4) # 0,
     subtract |-> BitOf(byte, SUBTRACT_FLAG_BYTE_POSITION) # 0,
     half_carry |-> BitOf(byte, HALF_CARRY_FLAG_BYTE_POSITION) # 0,
     carry |-> BitOf(byte, CARRY_FLAG_BYTE_POSITION) # 0]

\* impl From<u8> for FlagsRegister
ByteToFlags(byte) ==
    [zero |-> BitOf(byte, ZERO_FLAG_BYTE_POSITION) # 0,
     subtract |-> BitOf(byte, SUBTRACT_FLAG_BYTE_POSITION) # 0,
     half_carry |-> BitOf(byte, HALF_CARRY_FLAG_BYTE_POSITION) # 0,
     carry |-> BitOf(byte, CARRY_FLAG_BYTE_POSITION) # 0]

\* Registers::get_16_bit_register
get_16_bit_register(high, low) == high * 256 + low

get_bc(r) == get_16_bit_register(r.b, r.c)
get_de(r) == get_16_bit_register(r.d, r.e)
get_hl(r) == get_16_bit_register(r.h, r.l)

\* set_16_bit_register that truncates the masked value without shifting it
set_16_bit_register_unshifted(value) ==
    [high |-> (value - (value % 256)) % 256, low |-> value % 256]

\* Registers::set_16_bit_register: the (high, low) pair written
set_16_bit_register(value) == [high |-> (value \div 256) % 256, low |-> value % 256]

set_bc(r, value) ==
    [r EXCEPT !.b = set_16_bit_register(value).high, !.c = set_16_bit_register(value).low]
set_de(r, value) ==
    [r EXCEPT !.d = set_16_bit_register(value).high, !.e = set_16_bit_register(value).low]
set_hl(r, value) ==
    [r EXCEPT !.h = set_16_bit_register(value).high, !.l = set_16_bit_register(value).low]

\* Registers::get_af, Registers::set_af: A is the high byte, the flags byte the low byte
get_af(r) == get_16_bit_register(r.a, FlagsToByte(r.f))

set_af(r, value) ==
    [r EXCEPT !.a = set_16_bit_register(value).high,
              !.f = ByteToFlags(set_16_bit_register(value).low)]

\* U3::MAX
U3_MAX == 7

\* U3::wrap without the mask
U3_wrap_unmasked(value) == value

\* U3::wrap
U3_wrap(value) == AndBits(value, U3_MAX, 8)

-----------------------------------------------------------------------------
(* cpu/instructions/parameter.rs and the Instruction enum *)

TargetRegister8 == {"A", "B", "C", "D", "E", "H", "L"}
TargetRegister16 == {"BC", "DE", "HL"}
JumpTest == {"NotZero", "Zero", "NotCarry", "Carry", "Always"}
StackTarget == {"AF", "BC", "DE", "HL"}
LoadByteTarget == {"A", "B", "C", "D", "E", "H", "L", "Hli"}
LoadByteSource == {"A", "B", "C", "D", "E", "H", "L", "D8", "Hli"}
LoadType == {"Byte", "Word", "AFromIndirect", "IndirectFromA", "AFromByteAddress",
             "ByteAddressFromA"}

\* A value of enum Instruction: the variant, its operand (register, pair,
\* condition, stack target or load target), its bit index, and for Ld the
\* load type and source.  None is Option::None.
Instr(op, r, index, load_type, source) ==
    [op |-> op, r |-> r, index |-> index, load_type |-> load_type, source |-> source]

I0(op) == Instr(op, "-", 0, "-", "-")
I1(op, r) == Instr(op, r, 0, "-", "-")
IBit(op, index, r) == Instr(op, r, index, "-", "-")
ILd(target, source) == Instr("Ld", target, 0, "Byte", source)
None == I0("None")

-----------------------------------------------------------------------------
(* cpu/mod.rs: the CPU and its accessors *)

\* const PREFIX_BYTE
PREFIX_BYTE == 203

\* The CPU as a value: the fields of struct Cpu and the pending panic
CpuOf(r, p, s, b, h) ==
    [registers |-> r, pc |-> p, sp |-> s, bus |-> b, is_halted |-> h, panic |-> "none"]

\* Cpu::default()
CpuDefault == CpuOf(RegistersDefault, 0, 65535, BusDefault, FALSE)

\* x + y on an unsigned integer of the given modulus: wraps, or panics when the
\* build checks overflow
CheckedAdd(x, y, modulus) ==
    IF x + y >= modulus
    THEN IF overflow_checks THEN Panicked("overflow") ELSE Ok((x + y) % modulus)
    ELSE Ok(x + y)

\* x - y on an unsigned integer of the given modulus
CheckedSub(x, y, modulus) ==
    IF x < y
    THEN IF overflow_checks THEN Panicked("overflow") ELSE Ok((x - y) % modulus)
    ELSE Ok(x - y)

\* Cpu::get_r8_value
get_r8_value(c, target) ==
    CASE target = "A" -> c.registers.a
      [] target = "B" -> c.registers.b
      [] target = "C" -> c.registers.c
      [] target = "D" -> c.registers.d
      [] target = "E" -> c.registers.e
      [] target = "H" -> c.registers.h
      [] target = "L" -> c.registers.l

\* a write through Cpu::get_r8_ref
set_r8(c, target, value) ==
    CASE target = "A" -> [c EXCEPT !.registers.a = value]
      [] target = "B" -> [c EXCEPT !.registers.b = value]
      [] target = "C" -> [c EXCEPT !.registers.c = value]
      [] target = "D" -> [c EXCEPT !.registers.d = value]
      [] target = "E" -> [c EXCEPT !.registers.e = value]
      [] target = "H" -> [c EXCEPT !.registers.h = value]
      [] target = "L" -> [c EXCEPT !.registers.l = value]

\* Cpu::get_r16_value
get_r16_value(c, target) ==
    CASE target = "BC" -> get_bc(c.registers)
      [] target = "DE" -> get_de(c.registers)
      [] target = "HL" -> get_hl(c.registers)

\* Cpu::read_next_byte
read_next_byte(c) == read_byte(c.bus, (c.pc + 1) % 65536)

\* Cpu::read_next_word: pc + 2 is read first, then pc + 1
read_next_word(c) ==
    The({ IF a2.panic # "none" THEN a2
          ELSE The({ IF hi.panic # "none" THEN hi
                     ELSE IF a1.panic # "none" THEN a1
                     ELSE The({ IF lo.panic # "none" THEN lo
                                ELSE Ok(hi.value * 256 + lo.value)
                                : lo \in {read_byte(c.bus, a1.value)} })
                     : hi \in {read_byte(c.bus, a2.value)}, a1 \in {CheckedAdd(c.pc, 1, 65536)} })
          : a2 \in {CheckedAdd(c.pc, 2, 65536)} })

\* Cpu::get_jump_test_result
get_jump_test_result(c, condition) ==
    CASE condition = "Zero" -> c.registers.f.zero
      [] condition = "NotZero" -> ~c.registers.f.zero
      [] condition = "Carry" -> c.registers.f.carry
      [] condition = "NotCarry" -> ~c.registers.f.carry
      [] condition = "Always" -> TRUE

\* Cpu::get_stack_target_value
get_stack_target_value(c, target) ==
    CASE target = "AF" -> get_af(c.registers)
      [] target = "BC" -> get_bc(c.registers)
      [] target = "DE" -> get_de(c.registers)
      [] target = "HL" -> get_hl(c.registers)

\* Cpu::set_stack_target_value
set_stack_target_value(c, target, value) ==
    CASE target = "AF" -> [c EXCEPT !.registers = set_af(c.registers, value)]
      [] target = "BC" -> [c EXCEPT !.registers = set_bc(c.registers, value)]
      [] target = "DE" -> [c EXCEPT !.registers = set_de(c.registers, value)]
      [] target = "HL" -> [c EXCEPT !.registers = set_hl(c.registers, value)]

\* the CPU stopped by a panic
Panic(c, kind) == [c EXCEPT !.panic = kind]

\* the four flags written at once
SetFlags(c, zero, subtract, half_carry, carry) ==
    [c EXCEPT !.registers.f = [zero |-> zero, subtract |-> subtract,
                               half_carry |-> half_carry, carry |-> carry]]

-----------------------------------------------------------------------------
(* cpu/instructions.rs: the instruction handlers.  Each takes the CPU value *)
(* and returns the CPU value after the handler, with `panic` set when the   *)
(* handler panicked (the state is then the one at the panic).               *)

\* add_a with the half-carry taken from A after the addition
add_a_half_carry_after_update(c, target) ==
    LET value == get_r8_value(c, target)
        new_value == (c.registers.a + value) % 256
        did_overflow == c.registers.a + value > 255
        half_carry == (new_value % 16) + (value % 16) > 15
    IN  [SetFlags(c, new_value = 0, FALSE, half_carry, did_overflow)
            EXCEPT !.registers.a = new_value]

\* Cpu::add_a
add_a(c, target) ==
    LET value == get_r8_value(c, target)
        new_value == (c.registers.a + value) % 256
        did_overflow == c.registers.a + value > 255
        half_carry == (c.registers.a % 16) + (value % 16) > 15
    IN  [SetFlags(c, new_value = 0, FALSE, half_carry, did_overflow)
            EXCEPT !.registers.a = new_value]

\* add_hl with the half-carry taken out of bit 11
add_hl_half_carry_bit11(c, target) ==
    LET value == get_r16_value(c, target)
        hl == get_hl(c.registers)
        new_value == (hl + value) % 65536
        did_overflow == hl + value > 65535
        half_carry == (hl % 4096) + (value % 4096) > 4095
        c1 == SetFlags(c, new_value = 0, FALSE, half_carry, did_overflow)
    IN  [c1 EXCEPT !.registers = set_hl(c1.registers, new_value)]

\* Cpu::add_hl
add_hl(c, target) ==
    LET value == get_r16_value(c, target)
        hl == get_hl(c.registers)
        new_value == (hl + value) % 65536
        did_overflow == hl + value > 65535
        half_carry == (hl % 16) + (value % 16) > 15
        c1 == SetFlags(c, new_value = 0, FALSE, half_carry, did_overflow)
    IN  [c1 EXCEPT !.registers = set_hl(c1.registers, new_value)]

\* Cpu::add_with_carry
add_with_carry(c, target) ==
    LET old_carry == BoolBit(c.registers.f.carry)
        value == CheckedAdd(get_r8_value(c, target), old_carry, 256)
        new_value == (c.registers.a + value.value) % 256
        did_overflow == c.registers.a + value.value > 255
        half_carry == (c.registers.a % 16) + (value.value % 16) > 15
    IN  IF value.panic # "none" THEN Panic(c, value.panic)
        ELSE [SetFlags(c, new_value = 0, FALSE, half_carry, did_overflow)
                 EXCEPT !.registers.a = new_value]

\* compare with the difference stored in A
compare_storing(c, target) ==
    LET value == get_r8_value(c, target)
        new_value == (c.registers.a - value) % 256
        did_overflow == value > c.registers.a
        half_carry == (c.registers.a % 16) + (new_value % 16) >= 15
    IN  [cpu |-> [SetFlags(c, new_value = 0, TRUE, half_carry, did_overflow)
                    EXCEPT !.registers.a = new_value],
         value |-> new_value]

\* Cpu::compare: the CPU with the flags set, and the difference
compare(c, target) ==
    LET value == get_r8_value(c, target)
        new_value == (c.registers.a - value) % 256
        did_overflow == value > c.registers.a
        half_carry == (c.registers.a % 16) + (new_value % 16) >= 15
    IN  [cpu |-> SetFlags(c, new_value = 0, TRUE, half_carry, did_overflow),
         value |-> new_value]

\* Cpu::sub
sub(c, target) ==
    The({ [cmp.cpu EXCEPT !.registers.a = cmp.value] : cmp \in {compare(c, target)} })

\* Cpu::sub_with_carry
sub_with_carry(c, target) ==
    LET old_carry == BoolBit(c.registers.f.carry)
        value == CheckedAdd(get_r8_value(c, target), old_carry, 256)
        new_value == (c.registers.a - value.value) % 256
        did_overflow == value.value > c.registers.a
        half_carry == (c.registers.a % 16) + (new_value % 16) >= 15
    IN  IF value.panic # "none" THEN Panic(c, value.panic)
        ELSE [SetFlags(c, new_value = 0, TRUE, half_carry, did_overflow)
                 EXCEPT !.registers.a = new_value]

\* and with the zero flag taken from A after the update
and_zero_after_update(c, target) ==
    The({ [SetFlags(c, new_value = 0, FALSE, TRUE, FALSE) EXCEPT !.registers.a = new_value]
          : new_value \in {AndBits(c.registers.a, get_r8_value(c, target), 8)} })

\* Cpu::and
and(c, target) ==
    [SetFlags(c, c.registers.a = 0, FALSE, TRUE, FALSE)
        EXCEPT !.registers.a = AndBits(c.registers.a, get_r8_value(c, target), 8)]

\* Cpu::or
or(c, target) ==
    [SetFlags(c, c.registers.a = 0, FALSE, FALSE, FALSE)
        EXCEPT !.registers.a = OrBits(c.registers.a, get_r8_value(c, target), 8)]

\* Cpu::xor
xor(c, target) ==
    [SetFlags(c, c.registers.a = 0, FALSE, FALSE, FALSE)
        EXCEPT !.registers.a = XorBits(c.registers.a, get_r8_value(c, target), 8)]

\* Cpu::increment
increment(c, target) ==
    LET incremented == CheckedAdd(get_r8_value(c, target), 1, 256)
        new_value == incremented.value
        c1 == set_r8(c, target, new_value)
        before == CheckedSub(new_value, 1, 256)
    IN  IF incremented.panic # "none" THEN Panic(c, incremented.panic)
        ELSE IF before.panic # "none"
        THEN Panic([c1 EXCEPT !.registers.f.zero = (new_value = 0),
                              !.registers.f.subtract = FALSE], before.panic)
        ELSE [c1 EXCEPT !.registers.f.zero = (new_value = 0),
                        !.registers.f.subtract = FALSE,
                        !.registers.f.half_carry = ((before.value % 16) + 1 > 15)]

\* Cpu::decrement
decrement(c, target) ==
    LET decremented == CheckedSub(get_r8_value(c, target), 1, 256)
        new_value == decremented.value
        c1 == set_r8(c, target, new_value)
        after == CheckedAdd(new_value, 1, 256)
    IN  IF decremented.panic # "none" THEN Panic(c, decremented.panic)
        ELSE IF after.panic # "none"
        THEN Panic([c1 EXCEPT !.registers.f.zero = (new_value = 0),
                              !.registers.f.subtract = FALSE], after.panic)
        ELSE [c1 EXCEPT !.registers.f.zero = (new_value = 0),
                        !.registers.f.subtract = FALSE,
                        !.registers.f.half_carry =
                            ((new_value % 16) + (after.value % 16) >= 15)]

\* Cpu::invert_carry_flag
invert_carry_flag(c) ==
    [c EXCEPT !.registers.f.subtract = FALSE,
              !.registers.f.half_carry = FALSE,
              !.registers.f.carry = ~c.registers.f.carry]

\* Cpu::set_carry_flag
set_carry_flag(c) ==
    [c EXCEPT !.registers.f.subtract = FALSE,
              !.registers.f.half_carry = FALSE,
              !.registers.f.carry = TRUE]

\* complement_a that negates A
complement_a_negated(c) ==
    [c EXCEPT !.registers.f.subtract = TRUE,
              !.registers.f.half_carry = TRUE,
              !.registers.a = (256 - c.registers.a) % 256]

\* Cpu::complement_a
complement_a(c) ==
    [c EXCEPT !.registers.f.subtract = TRUE,
              !.registers.f.half_carry = TRUE,
              !.registers.a = 255 - c.registers.a]

\* impl Shl<U3> for u8
Shl(x, n) == (x * Pow2(n)) % 256

\* impl Shr<U3> for u8
Shr(x, n) == x \div Pow2(n)

\* Cpu::test_bit
test_bit(c, index, target) ==
    LET value == get_r8_value(c, target)
        mask == Shl(1, index)
        is_bit_set == Shr(AndBits(value, mask, 8), index) = 0
    IN  [c EXCEPT !.registers.f.subtract = FALSE,
                  !.registers.f.half_carry = TRUE,
                  !.registers.f.zero = ~is_bit_set]

\* unset_bit with the mask not inverted
unset_bit_mask_not_inverted(c, index, target) ==
    set_r8(c, target, AndBits(get_r8_value(c, target), Shl(1, index), 8))

\* Cpu::unset_bit
unset_bit(c, index, target) ==
    LET zero_bit == 255 - Shl(1, index)
    IN  set_r8(c, target, AndBits(get_r8_value(c, target), zero_bit, 8))

\* Cpu::set_bit
set_bit(c, index, target) ==
    LET one_bit == Shl(1, index)
    IN  set_r8(c, target, OrBits(get_r8_value(c, target), one_bit, 8))

\* Cpu::shift_right_logically
shift_right_logically(c, target) ==
    LET register == get_r8_value(c, target)
        lsb == register % 2
        new_value == register \div 2
    IN  SetFlags(set_r8(c, target, new_value), new_value = 0, FALSE, FALSE, lsb = 1)

\* Cpu::rotate_right_with_carry
rotate_right_with_carry(c, target) ==
    LET old_carry == BoolBit(c.registers.f.carry)
        register == get_r8_value(c, target)
        is_lsb_set == (register % 2) = 1
        shifted == register \div 2
        new_value == OrBits(Shl(old_carry, 7), shifted, 8)
    IN  SetFlags(set_r8(c, target, new_value), new_value = 0, FALSE, FALSE, is_lsb_set)

\* Cpu::rotate_left_with_carry
rotate_left_with_carry(c, target) ==
    LET old_carry == BoolBit(c.registers.f.carry)
        register == get_r8_value(c, target)
        is_msb_set == AndBits(register, 128, 8) = 128
        shifted == Shl(register, 1)
        new_value == OrBits(old_carry, shifted, 8)
    IN  SetFlags(set_r8(c, target, new_value), new_value = 0, FALSE, FALSE, is_msb_set)

\* Cpu::rotate_right_no_carry
rotate_right_no_carry(c, target) ==
    LET register == get_r8_value(c, target)
        lsb == register % 2
        shifted == register \div 2
        new_value == OrBits(Shl(lsb, 7), shifted, 8)
    IN  SetFlags(set_r8(c, target, new_value), new_value = 0, FALSE, FALSE, lsb = 1)

\* rotate_left_no_carry with the zero flag taken from the new value
rotate_left_no_carry_zero_from_value(c, target) ==
    LET register == get_r8_value(c, target)
        msb == AndBits(register, 128, 8)
        shifted == Shl(register, 1)
        new_value == OrBits(msb, shifted, 8)
    IN  SetFlags(set_r8(c, target, new_value), new_value = 0, FALSE, FALSE, msb = 128)

\* Cpu::rotate_left_no_carry
rotate_left_no_carry(c, target) ==
    LET register == get_r8_value(c, target)
        msb == AndBits(register, 128, 8)
        shifted == Shl(register, 1)
        new_value == OrBits(msb, shifted, 8)
    IN  SetFlags(set_r8(c, target, new_value), FALSE, FALSE, FALSE, msb = 128)

\* shift_right_arithmetically with bit 7 kept
shift_right_arithmetically_sign_kept(c, target) ==
    LET register == get_r8_value(c, target)
        lsb == register % 2
        new_value == OrBits(AndBits(register, 128, 8), register \div 2, 8)
    IN  SetFlags(set_r8(c, target, new_value), new_value = 0, FALSE, FALSE, lsb = 1)

\* Cpu::shift_right_arithmetically
shift_right_arithmetically(c, target) ==
    LET register == get_r8_value(c, target)
        lsb == register % 2
        new_value == register \div 2
    IN  SetFlags(set_r8(c, target, new_value), new_value = 0, FALSE, FALSE, lsb = 1)

\* Cpu::shift_left_arithmetically
shift_left_arithmetically(c, target) ==
    LET register == get_r8_value(c, target)
        msb == AndBits(register, 128, 8)
        new_value == Shl(register, 1)
    IN  SetFlags(set_r8(c, target, new_value), new_value = 0, FALSE, FALSE, msb = 128)

\* swap with the zero flag taken from the new value
swap_zero_from_value(c, target) ==
    LET register == get_r8_value(c, target)
        new_upper == (register % 16) * 16
        new_lower == register \div 16
        new_value == OrBits(new_upper, new_lower, 8)
    IN  SetFlags(set_r8(c, target, new_value), new_value = 0, FALSE, FALSE, FALSE)

\* Cpu::swap
swap(c, target) ==
    LET register == get_r8_value(c, target)
        new_upper == (register % 16) * 16
        new_lower == register \div 16
    IN  SetFlags(set_r8(c, target, OrBits(new_upper, new_lower, 8)),
                 FALSE, FALSE, FALSE, FALSE)

\* the result of a handler that computes the next program counter
Next_pc(c, next_pc) == [cpu |-> c, next_pc |-> next_pc]

\* jump with the address read most significant byte first
jump_big_endian(c, condition) ==
    IF get_jump_test_result(c, condition)
    THEN The({ IF lsb.panic # "none" THEN Next_pc(Panic(c, lsb.panic), 0)
               ELSE IF msb.panic # "none" THEN Next_pc(Panic(c, msb.panic), 0)
               ELSE Next_pc(c, lsb.value * 256 + msb.value)
               : lsb \in {read_byte(c.bus, (c.pc + 1) % 65536)},
                 msb \in {read_byte(c.bus, (c.pc + 2) % 65536)} })
    ELSE Next_pc(c, (c.pc + 3) % 65536)

\* Cpu::jump
jump(c, condition) ==
    IF get_jump_test_result(c, condition)
    THEN The({ IF a1.panic # "none" THEN Next_pc(Panic(c, a1.panic), 0)
               ELSE The({ IF lsb.panic # "none" THEN Next_pc(Panic(c, lsb.panic), 0)
                          ELSE IF a2.panic # "none" THEN Next_pc(Panic(c, a2.panic), 0)
                          ELSE The({ IF msb.panic # "none"
                                     THEN Next_pc(Panic(c, msb.panic), 0)
                                     ELSE Next_pc(c, msb.value * 256 + lsb.value)
                                     : msb \in {read_byte(c.bus, a2.value)} })
                          : lsb \in {read_byte(c.bus, a1.value)},
                            a2 \in {CheckedAdd(c.pc, 2, 65536)} })
               : a1 \in {CheckedAdd(c.pc, 1, 65536)} })
    ELSE Next_pc(c, (c.pc + 3) % 65536)

\* the first match of Cpu::load: the source value, or the panic
LoadSourceValue(c, source) ==
    CASE source = "D8" -> read_next_byte(c)
      [] source = "Hli" -> read_byte(c.bus, get_hl(c.registers))
      [] OTHER -> Ok(get_r8_value(c, source))

\* the second match of Cpu::load: the CPU with the target written
LoadTargetWrite(c, target, source_value) ==
    IF target = "Hli"
    THEN The({ [c EXCEPT !.bus = w.bus, !.panic = w.panic]
               : w \in {write_byte(c.bus, get_hl(c.registers), source_value)} })
    ELSE set_r8(c, target, source_value)

\* load advancing by one byte whatever the source
load_advancing_one(c, load_type, target, source) ==
    IF load_type = "Byte"
    THEN The({ IF source_value.panic # "none"
               THEN Next_pc(Panic(c, source_value.panic), 0)
               ELSE The({ IF c1.panic # "none" THEN Next_pc(c1, 0)
                          ELSE Next_pc(c1, (c.pc + 1) % 65536)
                          : c1 \in {LoadTargetWrite(c, target, source_value.value)} })
               : source_value \in {LoadSourceValue(c, source)} })
    ELSE Next_pc(Panic(c, "not_yet_implemented"), 0)

\* Cpu::load
load(c, load_type, target, source) ==
    IF load_type = "Byte"
    THEN The({ IF source_value.panic # "none"
               THEN Next_pc(Panic(c, source_value.panic), 0)
               ELSE The({ IF c1.panic # "none" THEN Next_pc(c1, 0)
                          ELSE Next_pc(c1, IF source = "D8" THEN (c.pc + 2) % 65536
                                                            ELSE (c.pc + 1) % 65536)
                          : c1 \in {LoadTargetWrite(c, target, source_value.value)} })
               : source_value \in {LoadSourceValue(c, source)} })
    ELSE Next_pc(Panic(c, "not_yet_implemented"), 0)

\* push with the least significant byte written first, at the higher address
push_low_byte_first(c, value) ==
    The({ IF w1.panic # "none"
          THEN [c EXCEPT !.sp = (c.sp - 1) % 65536, !.bus = w1.bus, !.panic = w1.panic]
          ELSE The({ [c EXCEPT !.sp = (c.sp - 2) % 65536, !.bus = w2.bus, !.panic = w2.panic]
                     : w2 \in {write_byte(w1.bus, (c.sp - 2) % 65536, (value \div 256) % 256)} })
          : w1 \in {write_byte(c.bus, (c.sp - 1) % 65536, value % 256)} })

\* Cpu::push
push(c, value) ==
    The({ IF w1.panic # "none"
          THEN [c EXCEPT !.sp = (c.sp - 1) % 65536, !.bus = w1.bus, !.panic = w1.panic]
          ELSE The({ [c EXCEPT !.sp = (c.sp - 2) % 65536, !.bus = w2.bus, !.panic = w2.panic]
                     : w2 \in {write_byte(w1.bus, (c.sp - 2) % 65536, value % 256)} })
          : w1 \in {write_byte(c.bus, (c.sp - 1) % 65536, (value \div 256) % 256)} })

\* Cpu::pop: the CPU with the stack pointer moved, and the value popped
pop(c) ==
    The({ IF lsb.panic # "none" THEN [cpu |-> Panic(c, lsb.panic), value |-> 0]
          ELSE The({ IF msb.panic # "none"
                     THEN [cpu |-> Panic([c EXCEPT !.sp = (c.sp + 1) % 65536], msb.panic),
                           value |-> 0]
                     ELSE [cpu |-> [c EXCEPT !.sp = (c.sp + 2) % 65536],
                           value |-> msb.value * 256 + lsb.value]
                     : msb \in {read_byte(c.bus, (c.sp + 1) % 65536)} })
          : lsb \in {read_byte(c.bus, c.sp)} })

\* Cpu::call
call(c, condition) ==
    IF get_jump_test_result(c, condition)
    THEN The({ IF c1.panic # "none" THEN Next_pc(c1, 0)
               ELSE The({ IF word.panic # "none" THEN Next_pc(Panic(c1, word.panic), 0)
                          ELSE Next_pc(c1, word.value)
                          : word \in {read_next_word(c1)} })
               : c1 \in {push(c, (c.sp + 3) % 65536)} })
    ELSE Next_pc(c, (c.sp + 3) % 65536)

\* ret that pops also when the condition does not hold
ret_popping_always(c, condition) ==
    The({ Next_pc(p.cpu, IF get_jump_test_result(c, condition) THEN p.value
                         ELSE (c.pc + 1) % 65536)
          : p \in {pop(c)} })

\* Cpu::ret
ret(c, condition) ==
    IF get_jump_test_result(c, condition)
    THEN The({ Next_pc(p.cpu, p.value) : p \in {pop(c)} })
    ELSE Next_pc(c, (c.pc + 1) % 65536)

\* the arms of Cpu::execute that fall through to the default next address
ExecuteArm(c, i) ==
    CASE i.op = "Add" -> add_a(c, i.r)
      [] i.op = "AddHl" -> add_hl(c, i.r)
      [] i.op = "Adc" -> add_with_carry(c, i.r)
      [] i.op = "Sub" -> sub(c, i.r)
      [] i.op = "Sbc" -> sub_with_carry(c, i.r)
      [] i.op = "Cp" -> compare(c, i.r).cpu
      [] i.op = "And" -> and(c, i.r)
      [] i.op = "Or" -> or(c, i.r)
      [] i.op = "Xor" -> xor(c, i.r)
      [] i.op = "Inc" -> increment(c, i.r)
      [] i.op = "Dec" -> decrement(c, i.r)
      [] i.op = "Ccf" -> invert_carry_flag(c)
      [] i.op = "Scf" -> set_carry_flag(c)
      [] i.op = "Cpl" -> complement_a(c)
      [] i.op = "Bit" -> test_bit(c, i.index, i.r)
      [] i.op = "Res" -> unset_bit(c, i.index, i.r)
      [] i.op = "Set" -> set_bit(c, i.index, i.r)
      [] i.op = "Rr" -> rotate_right_with_carry(c, i.r)
      [] i.op = "Rl" -> rotate_left_with_carry(c, i.r)
      [] i.op = "Rrc" -> rotate_right_no_carry(c, i.r)
      [] i.op = "Rlc" -> rotate_left_no_carry(c, i.r)
      [] i.op = "Rla" -> rotate_left_with_carry(c, "A")
      [] i.op = "Rrca" -> rotate_right_no_carry(c, "A")
      [] i.op = "Rlca" -> rotate_left_no_carry(c, "A")
      [] i.op = "Rra" -> rotate_right_with_carry(c, "A")
      [] i.op = "Srl" -> shift_right_logically(c, i.r)
      [] i.op = "Sra" -> shift_right_arithmetically(c, i.r)
      [] i.op = "Sla" -> shift_left_arithmetically(c, i.r)
      [] i.op = "Swap" -> swap(c, i.r)
      [] i.op = "Push" -> push(c, get_stack_target_value(c, i.r))
      [] i.op = "Pop" ->
            The({ IF p.cpu.panic # "none" THEN p.cpu
                  ELSE set_stack_target_value(p.cpu, i.r, p.value) : p \in {pop(c)} })
      [] i.op = "Nop" -> c
      [] i.op = "Halt" -> [c EXCEPT !.is_halted = TRUE]

\* execute whose halted branch clears the halted flag
execute_waking(c, i) ==
    IF c.is_halted THEN Next_pc([c EXCEPT !.is_halted = FALSE], 0)
    ELSE CASE i.op = "Jp" -> jump(c, i.r)
           [] i.op = "Ld" -> load(c, i.load_type, i.r, i.source)
           [] i.op = "Call" -> call(c, i.r)
           [] i.op = "Ret" -> ret(c, i.r)
           [] OTHER -> Next_pc(ExecuteArm(c, i), (c.pc + 1) % 65536)

\* Cpu::execute: the CPU after the instruction, and the address it returns
execute(c, i) ==
    IF c.is_halted THEN Next_pc(c, 0)
    ELSE CASE i.op = "Jp" -> jump(c, i.r)
           [] i.op = "Ld" -> load(c, i.load_type, i.r, i.source)
           [] i.op = "Call" -> call(c, i.r)
           [] i.op = "Ret" -> ret(c, i.r)
           [] OTHER -> Next_pc(ExecuteArm(c, i), (c.pc + 1) % 65536)

-----------------------------------------------------------------------------
(* cpu/instructions/opcodes.rs: the two opcode tables.  The result of a     *)
(* lookup is the set of the instructions the table may hold for the byte:   *)
(* one instruction, or None for a byte the table does not hold.             *)

\* operand column of an opcode: B, C, D, E, H, L, [HL], A
OperandRegisters(z) ==
    CASE z = 0 -> {"B"}
      [] z = 1 -> {"C"}
      [] z = 2 -> {"D"}
      [] z = 3 -> {"E"}
      [] z = 4 -> {"H"}
      [] z = 5 -> {"L"}
      [] z = 6 -> TargetRegister8
      [] z = 7 -> {"A"}

\* operand column of a byte load, where column 6 is [HL]
LoadOperand(z) ==
    CASE z = 0 -> "B"
      [] z = 1 -> "C"
      [] z = 2 -> "D"
      [] z = 3 -> "E"
      [] z = 4 -> "H"
      [] z = 5 -> "L"
      [] z = 6 -> "Hli"
      [] z = 7 -> "A"

RotateOps == <<"Rlc", "Rrc", "Rl", "Rr", "Sla", "Sra", "Swap", "Srl">>
ArithmeticOps == <<"Add", "Adc", "Sub", "Sbc", "And", "Xor", "Or", "Cp">>
Conditions == <<"NotZero", "Zero", "NotCarry", "Carry">>
Pairs == <<"BC", "DE", "HL">>
StackPairs == <<"BC", "DE", "HL", "AF">>

\* opcodes::get_opcode_prefixed: the extended table, total over the 256 bytes.
\* The table maps every byte to an operation over one of the seven registers;
\* which register it gives the [HL] column is left open.
get_opcode_prefixed(byte) ==
    LET x == byte \div 64
        y == (byte \div 8) % 8
        z == byte % 8
    IN  { CASE x = 0 -> I1(RotateOps[y + 1], r)
            [] x = 1 -> IBit("Bit", U3_wrap(y), r)
            [] x = 2 -> IBit("Res", U3_wrap(y), r)
            [] x = 3 -> IBit("Set", U3_wrap(y), r) : r \in OperandRegisters(z) }

\* opcodes::get_opcode_unprefixed: the primary table, partial.  It holds the
\* bytes the console's opcode map gives to an instruction of enum Instruction
\* in its implemented forms; every other byte is absent.
get_opcode_unprefixed(byte) ==
    LET x == byte \div 64
        y == (byte \div 8) % 8
        z == byte % 8
    IN  CASE byte = 0 -> {I0("Nop")}
          [] byte = 118 -> {I0("Halt")}
          [] byte = 7 -> {I0("Rlca")}
          [] byte = 15 -> {I0("Rrca")}
          [] byte = 23 -> {I0("Rla")}
          [] byte = 31 -> {I0("Rra")}
          [] byte = 47 -> {I0("Cpl")}
          [] byte = 55 -> {I0("Scf")}
          [] byte = 63 -> {I0("Ccf")}
          [] byte = 195 -> {I1("Jp", "Always")}
          [] byte = 205 -> {I1("Call", "Always")}
          [] byte = 201 -> {I1("Ret", "Always")}
          [] x = 0 /\ z = 1 /\ y \in {1, 3, 5} -> {I1("AddHl", Pairs[(y + 1) \div 2])}
          [] x = 0 /\ z = 4 /\ y # 6 -> {I1("Inc", LoadOperand(y))}
          [] x = 0 /\ z = 5 /\ y # 6 -> {I1("Dec", LoadOperand(y))}
          [] x = 0 /\ z = 6 -> {ILd(LoadOperand(y), "D8")}
          [] x = 1 /\ byte # 118 -> {ILd(LoadOperand(y), LoadOperand(z))}
          [] x = 2 /\ z # 6 -> {I1(ArithmeticOps[y + 1], LoadOperand(z))}
          [] x = 3 /\ z = 0 /\ y < 4 -> {I1("Ret", Conditions[y + 1])}
          [] x = 3 /\ z = 2 /\ y < 4 -> {I1("Jp", Conditions[y + 1])}
          [] x = 3 /\ z = 4 /\ y < 4 -> {I1("Call", Conditions[y + 1])}
          [] x = 3 /\ z = 1 /\ y \in {0, 2, 4, 6} -> {I1("Pop", StackPairs[(y \div 2) + 1])}
          [] x = 3 /\ z = 5 /\ y \in {0, 2, 4, 6} -> {I1("Push", StackPairs[(y \div 2) + 1])}
          [] OTHER -> {None}

-----------------------------------------------------------------------------
(* cpu/instructions.rs: the decoder *)

\* Instruction::from_byte
from_byte(byte, prefixed) ==
    IF prefixed THEN get_opcode_unprefixed(byte) ELSE get_opcode_prefixed(byte)

-----------------------------------------------------------------------------
(* cpu/mod.rs: the fetch-decode-execute step *)

\* the fetch of Cpu::step: the opcode byte and whether it follows the prefix
Fetch(c) ==
    The({ IF first.panic # "none"
          THEN [panic |-> first.panic, instruction_byte |-> 0, is_prefixed |-> FALSE]
          ELSE IF first.value # PREFIX_BYTE
          THEN [panic |-> "none", instruction_byte |-> first.value, is_prefixed |-> FALSE]
          ELSE The({ IF a1.panic # "none"
                     THEN [panic |-> a1.panic, instruction_byte |-> 0, is_prefixed |-> TRUE]
                     ELSE The({ [panic |-> second.panic, instruction_byte |-> second.value,
                                 is_prefixed |-> TRUE]
                                : second \in {read_byte(c.bus, a1.value)} })
                     : a1 \in {CheckedAdd(c.pc, 1, 65536)} })
          : first \in {read_byte(c.bus, c.pc)} })

\* the rest of Cpu::step, for the Option<Instruction> the decoder returned
step(c, instruction) ==
    IF instruction = None THEN Next_pc(Panic(c, "unknown_instruction"), c.pc)
    ELSE The({ IF e.cpu.panic # "none" THEN e
               ELSE Next_pc([e.cpu EXCEPT !.pc = e.next_pc], e.next_pc)
               : e \in {execute(c, instruction)} })

-----------------------------------------------------------------------------
(* The state machine *)

\* the CPU held by the variables
Cpu == CpuOf(registers, pc, sp, bus, is_halted)

\* the variables take the fields of the CPU value c
Commit(c) ==
    /\ registers' = c.registers
    /\ pc' = c.pc
    /\ sp' = c.sp
    /\ bus' = c.bus
    /\ is_halted' = c.is_halted
    /\ status' = IF c.panic = "none" THEN "running" ELSE c.panic

\* a record of the last operation
Op(kind, instruction, instruction_byte, is_prefixed, address, value, returned) ==
    [kind |-> kind, instruction |-> instruction, instruction_byte |-> instruction_byte,
     is_prefixed |-> is_prefixed, address |-> address, value |-> value,
     returned |-> returned]

NoOp == Op("init", None, 0, FALSE, 0, 0, 0)

\* the state after Cpu::default() with the given registers and memory bus
InitCpuSp(r, p, s, b) ==
    /\ registers = r
    /\ pc = p
    /\ sp = s
    /\ bus = b
    /\ is_halted = CpuDefault.is_halted
    /\ overflow_checks \in BOOLEAN
    /\ status = "running"
    /\ last = NoOp
    /\ steps = 0

\* the same with the stack pointer of Cpu::default
InitCpu(r, p, b) == InitCpuSp(r, p, CpuDefault.sp, b)

(* Stepping programs *)

\* where the host loads the program: the start of working RAM
ProgramBase == WORKING_RAM_START

\* the bytes programs are made of: Nop/Rlc B, Scf/Swap A, Halt/Bit 6, Add B/Res 0 B,
\* the prefix byte, and a byte the primary table does not hold
ProgramBytes == {0, 55, 118, 128, 203, 252}

Programs == [1..ProgLen -> ProgramBytes]

\* the bus after the host wrote the program with write_byte, byte by byte
RECURSIVE LoadProgram(_, _, _)
LoadProgram(b, program, n) ==
    IF n = 0 THEN b
    ELSE write_byte(LoadProgram(b, program, n - 1), ProgramBase + n - 1, program[n]).bus

Init ==
    \E program \in Programs :
        \E loaded \in {LoadProgram(BusDefault, program, ProgLen)} :
            InitCpu(RegistersDefault, ProgramBase, loaded)

\* Cpu::step
Step ==
    /\ status = "running"
    /\ steps < MaxSteps
    /\ steps' = steps + 1
    /\ UNCHANGED overflow_checks
    /\ \E c \in {Cpu} : \E f \in {Fetch(c)} :
           IF f.panic # "none"
           THEN /\ Commit(Panic(c, f.panic))
                /\ last' = Op("step", None, f.instruction_byte, f.is_prefixed, pc, 0, pc)
           ELSE \E instruction \in from_byte(f.instruction_byte, f.is_prefixed) :
                    \E s \in {step(c, instruction)} :
                        /\ Commit(s.cpu)
                        /\ last' = Op("step", instruction, f.instruction_byte,
                                      f.is_prefixed, pc, 0, s.next_pc)

Next == Step

Spec == Init /\ [][Next]_vars

(* The decoder alone *)

InitDecode == InitCpu(RegistersDefault, CpuDefault.pc, BusDefault)

\* Instruction::from_byte(byte, prefixed)
FromByte ==
    /\ status = "running"
    /\ \E byte \in U8, prefixed \in BOOLEAN :
        \E instruction \in from_byte(byte, prefixed) :
            last' = Op("from_byte", instruction, byte, prefixed, 0, 0, 0)
    /\ UNCHANGED <<registers, pc, sp, bus, is_halted, overflow_checks, status, steps>>

NextDecode == FromByte

SpecDecode == InitDecode /\ [][NextDecode]_vars

(* The memory bus alone *)

\* for every region of the map: its first and last address
Edges(first, lastAddr) == {first, lastAddr}

BusAddrs ==
    Edges(BOOT_ROM_START, BOOT_ROM_END)
    \cup Edges(GAME_ROM_BANK_0_START, GAME_ROM_BANK_0_END)
    \cup {BOOT_ROM_END + 1, GAME_ROM_BANK_0_END - 1}
    \cup Edges(GAME_ROM_BANK_N_START, GAME_ROM_BANK_N_END)
    \cup Edges(VRAM_BEGIN, VRAM_END)
    \cup {VRAM_BEGIN + TILESET_STORAGE_END - 1, VRAM_BEGIN + TILESET_STORAGE_END}
    \cup Edges(CARTRIDGE_RAM_START, CARTRIDGE_RAM_END)
    \cup Edges(WORKING_RAM_START, WORKING_RAM_END)
    \cup Edges(ECHO_RAM_START, ECHO_RAM_END)
    \cup Edges(OAM_START, OAM_END)
    \cup Edges(UNUSED_MEMORY_START, UNUSED_MEMORY_END)
    \cup Edges(IO_REGISTER_START, IO_REGISTER_END)
    \cup Edges(HIGH_RAM_START, HIGH_RAM_END)
    \cup {INTERRUPT_ENABLE_REGISTER}

\* the bytes a host writes
BusValues == {0, 165}

\* number of non-zero cells of the backing stores
Cells(b) ==
    Cardinality(DOMAIN b.rom_bank_0) + Cardinality(DOMAIN b.rom_bank_n)
    + Cardinality(DOMAIN b.cartridge_ram) + Cardinality(DOMAIN b.working_ram)
    + Cardinality(DOMAIN b.high_ram) + Cardinality(DOMAIN b.gpu.vram)
    + Cardinality(DOMAIN b.gpu.oam)

InitBus == InitCpu(RegistersDefault, CpuDefault.pc, BusDefault)

\* MemoryBus::read_byte(address)
ReadByte ==
    /\ status = "running"
    /\ \E address \in BusAddrs : \E r \in {read_byte(bus, address)} :
            /\ last' = Op("read_byte", None, 0, FALSE, address, r.value, 0)
            /\ status' = IF r.panic = "none" THEN "running" ELSE r.panic
    /\ UNCHANGED <<registers, pc, sp, bus, is_halted, overflow_checks, steps>>

\* MemoryBus::write_byte(address, value)
WriteByte ==
    /\ status = "running"
    /\ \E address \in BusAddrs, value \in BusValues :
        \E w \in {write_byte(bus, address, value)} :
            /\ Cells(w.bus) <= MaxCells
            /\ bus' = w.bus
            /\ last' = Op("write_byte", None, 0, FALSE, address, value, 0)
            /\ status' = IF w.panic = "none" THEN "running" ELSE w.panic
    /\ UNCHANGED <<registers, pc, sp, is_halted, overflow_checks, steps>>

NextBus == ReadByte \/ WriteByte

SpecBus == InitBus /\ [][NextBus]_vars

(* One instruction executed on chosen registers, as the unit tests do *)

\* Cpu::execute(instruction), called once on the initial registers
ExecuteOnce(instructions) ==
    /\ status = "running"
    /\ last.kind = "init"
    /\ \E instruction \in instructions : \E e \in {execute(Cpu, instruction)} :
        /\ Commit(e.cpu)
        /\ last' = Op("execute", instruction, 0, FALSE, 0, 0, e.next_pc)
    /\ UNCHANGED <<overflow_checks, steps>>

\* the flags all clear, or all set
FlagsInputs ==
    {FlagsDefault, [zero |-> TRUE, subtract |-> TRUE, half_carry |-> TRUE, carry |-> TRUE]}

\* Add: A = x, every other register = y
InitAdd ==
    \E x \in U8, y \in U8, f \in FlagsInputs :
        InitCpu([a |-> x, b |-> y, c |-> y, d |-> y, e |-> y, f |-> f, h |-> y, l |-> y],
                CpuDefault.pc, BusDefault)

AddInstructions == {I1("Add", r) : r \in TargetRegister8}

NextAdd == ExecuteOnce(AddInstructions)

SpecAdd == InitAdd /\ [][NextAdd]_vars

\* the 16-bit values around v
Near(v) == {(v + d) % 65536 : d \in (0 - WordEdge)..WordEdge}

\* 16-bit operands: around 0, the nibble, byte and 12-bit boundaries, the sign
\* bit and the top of the range
WordInputs ==
    Near(0) \cup Near(16) \cup Near(256) \cup Near(3840) \cup Near(4096)
    \cup Near(32768) \cup Near(61440) \cup Near(65280) \cup Near(65520)

\* AddHl: HL = x, BC = DE = y
InitAddHl ==
    \E x \in WordInputs, y \in WordInputs, f \in FlagsInputs :
        InitCpu(set_hl(set_de(set_bc([RegistersDefault EXCEPT !.f = f], y), y), x),
                CpuDefault.pc, BusDefault)

AddHlInstructions == {I1("AddHl", r) : r \in TargetRegister16}

NextAddHl == ExecuteOnce(AddHlInstructions)

SpecAddHl == InitAddHl /\ [][NextAddHl]_vars

(* ------------------------------------------------------------------ *)
(* Properties                                                          *)
(* ------------------------------------------------------------------ *)

\* C1: a step taken while the CPU is halted is a no-op: pc, sp, every
\* register and flag and the whole of memory are left as they were.
C1_HaltedStepIsNoOp ==
    [][(status = "running" /\ is_halted /\ steps' = steps + 1)
        => /\ status' = "running"
           /\ pc' = pc
           /\ sp' = sp
           /\ registers' = registers
           /\ bus' = bus]_vars

\* C2: a step whose byte at pc is 0xFC, not preceded by the prefix byte, is a
\* decode failure that modifies neither pc, the registers nor memory.
C2_UnknownOpcodeFails ==
    [][(status = "running" /\ ~is_halted /\ steps' = steps + 1
            /\ read_byte(bus, pc) = Ok(252))
        => /\ status' = "unknown_instruction"
           /\ pc' = pc
           /\ sp' = sp
           /\ registers' = registers
           /\ bus' = bus]_vars

\* C3: decoding a byte with the prefixed flag set yields the extended table's
\* entry for it, and decoding with the flag clear yields the primary table's
\* entry (which may be "no instruction").
C3_FromByteSelectsTable ==
    last.kind = "from_byte"
        => last.instruction \in
              (IF last.is_prefixed
               THEN get_opcode_prefixed(last.instruction_byte)
               ELSE get_opcode_unprefixed(last.instruction_byte))

\* C4: a step that fetched the prefix byte and ran its instruction to the end
\* leaves pc two bytes further on.
C4_PrefixedStepAdvancesByTwo ==
    [][(status = "running" /\ ~is_halted /\ steps' = steps + 1
            /\ read_byte(bus, pc) = Ok(PREFIX_BYTE) /\ status' = "running")
        => pc' = (pc + 2) % 65536]_vars

\* C5: no read and no write of a 16-bit address ends in the fall-through branch
\* "Memory address out of bounds".
C5_BusDecodingIsTotal ==
    last.kind \in {"read_byte", "write_byte"} => status # "unreachable"

\* C6 (write half): a byte written through an echo address 0xE000 + k is
\* accepted and is then read back at the work RAM address 0xC000 + k.
C6_EchoWriteReachesWorkRam ==
    (last.kind = "write_byte" /\ InRange(last.address, ECHO_RAM_START, ECHO_RAM_END))
        => /\ status = "running"
           /\ read_byte(bus, last.address - ECHO_RAM_START + WORKING_RAM_START)
                = Ok(last.value)

\* the unusable addresses 0xFEA0..0xFEFF
UnusableAddrs == UNUSED_MEMORY_START..UNUSED_MEMORY_END

\* C7: in every state of the bus every unusable address reads as 0 and accepts
\* every written value without changing the bus or failing, and a read or
\* write the host has made at an unusable address returned 0, or was accepted.
C7_UnusableReadsZeroWritesIgnored ==
    /\ \A a \in UnusableAddrs :
            /\ read_byte(bus, a) = Ok(0)
            /\ \A v \in BusValues : write_byte(bus, a, v) = [panic |-> "none", bus |-> bus]
    /\ (last.address \in UnusableAddrs /\ last.kind \in {"read_byte", "write_byte"})
            => (status = "running" /\ (last.kind = "read_byte" => last.value = 0))

\* C7 witness: after an earlier write left a non-zero byte in memory, a
\* non-zero byte has been written to an unusable address.
C7_Witness ==
    /\ last.kind = "write_byte"
    /\ last.address \in UnusableAddrs
    /\ last.value # 0
    /\ Cells(bus) >= 1
    /\ status = "running"

\* the partitions whose handlers are not written: reads
UnwiredReads == (IO_REGISTER_START..IO_REGISTER_END) \cup {INTERRUPT_ENABLE_REGISTER}

\* the partitions whose handlers are not written: writes
UnwiredWrites == UnwiredReads \cup (OAM_START..OAM_END)

\* C8: a read of an I/O register or of the interrupt-enable register, and a
\* write to an I/O register, to the interrupt-enable register or to OAM, ends
\* in the fatal "not yet implemented" condition, which is not the decode
\* failure, and the write stores nothing.
C8_UnwiredPartitionsFail ==
    /\ \A a \in UnwiredReads : read_byte(bus, a).panic = "not_yet_implemented"
    /\ \A a \in UnwiredWrites : \A v \in BusValues :
            write_byte(bus, a, v) = [panic |-> "not_yet_implemented", bus |-> bus]
    /\ (\/ last.kind = "read_byte" /\ last.address \in UnwiredReads
        \/ last.kind = "write_byte" /\ last.address \in UnwiredWrites)
            => (status = "not_yet_implemented" /\ status # "unknown_instruction")

\* C8 witness: the host wrote a non-zero byte to the first OAM address and the
\* program stopped as not yet implemented.
C8_Witness ==
    /\ last.kind = "write_byte"
    /\ last.address = OAM_START
    /\ last.value # 0
    /\ status = "not_yet_implemented"

\* C9: Add of an operand register holding y to A holding x sets A to
\* (x + y) mod 256, carry iff x + y > 255, half-carry iff the low nibbles of x
\* and y sum above 15, subtract to false and zero iff the result is 0; with A
\* as the operand, y is x.
C9_AddFlags ==
    [][(last'.kind = "execute" /\ last'.instruction.op = "Add")
        => LET x == registers.a
               y == get_r8_value(Cpu, last'.instruction.r)
           IN  /\ status' = "running"
               /\ registers'.a = (x + y) % 256
               /\ registers'.f.carry = (x + y > 255)
               /\ registers'.f.half_carry = ((x % 16) + (y % 16) > 15)
               /\ registers'.f.subtract = FALSE
               /\ registers'.f.zero = ((x + y) % 256 = 0)
               /\ (last'.instruction.r = "A" => y = x)
               /\ \A r \in TargetRegister8 \ {"A"} :
                     get_r8_value(CpuOf(registers', pc', sp', bus', is_halted'), r)
                        = get_r8_value(Cpu, r)]_vars

\* C9 witness: Add A has added A = 0x88 to itself: A is 0x10, with carry and
\* half-carry set, subtract and zero clear.
C9_Witness ==
    /\ last.kind = "execute"
    /\ last.instruction = I1("Add", "A")
    /\ registers.a = 16
    /\ registers.f.carry
    /\ registers.f.half_carry
    /\ ~registers.f.subtract
    /\ ~registers.f.zero

\* C10: AddHl of a pair holding y to HL holding x sets HL to (x + y) mod 65536,
\* carry iff x + y > 65535, subtract to false, zero iff the result is 0 and
\* half-carry iff the low nibbles of x and y sum above 15.
C10_AddHlFlags ==
    [][(last'.kind = "execute" /\ last'.instruction.op = "AddHl")
        => LET x == get_hl(registers)
               y == get_r16_value(Cpu, last'.instruction.r)
           IN  /\ status' = "running"
               /\ get_hl(registers') = (x + y) % 65536
               /\ registers'.f.carry = (x + y > 65535)
               /\ registers'.f.subtract = FALSE
               /\ registers'.f.zero = ((x + y) % 65536 = 0)
               /\ registers'.f.half_carry = ((x % 16) + (y % 16) > 15)
               /\ registers'.a = registers.a
               /\ (last'.instruction.r # "HL"
                     => get_r16_value(CpuOf(registers', pc', sp', bus', is_halted'),
                                      last'.instruction.r) = y)]_vars

\* C10 witness: AddHl BC has added 0x0100 to 0x0F00: HL is 0x1000 and
\* half-carry is clear, since the low nibbles were 0.
C10_Witness ==
    /\ last.kind = "execute"
    /\ last.instruction = I1("AddHl", "BC")
    /\ get_bc(registers) = 256
    /\ get_hl(registers) = 4096
    /\ ~registers.f.half_carry
    /\ ~registers.f.carry

(* Bit *)

\* registers for the one-instruction checks: A = v and the other registers at
\* distinct distances from v, so that every register takes every 8-bit value
RegistersFrom(v, f) ==
    [a |-> v, b |-> (v + 37) % 256, c |-> (v + 74) % 256, d |-> (v + 111) % 256,
     e |-> (v + 148) % 256, f |-> f, h |-> (v + 185) % 256, l |-> (v + 222) % 256]

InitRegisters ==
    \E v \in U8, f \in FlagsInputs : InitCpu(RegistersFrom(v, f), CpuDefault.pc, BusDefault)

BitInstructions == {IBit("Bit", U3_wrap(i), r) : i \in U8, r \in TargetRegister8}

NextBit == ExecuteOnce(BitInstructions)

SpecBit == InitRegisters /\ [][NextBit]_vars

\* C11: Bit(i, r) sets zero exactly when bit i of r is 0, subtract to false and
\* half-carry to true, and leaves every register and the carry flag unchanged.
C11_BitFlags ==
    [][(last'.kind = "execute" /\ last'.instruction.op = "Bit")
        => /\ status' = "running"
           /\ registers'.f.zero
                = (BitOf(get_r8_value(Cpu, last'.instruction.r), last'.instruction.index) = 0)
           /\ registers'.f.subtract = FALSE
           /\ registers'.f.half_carry = TRUE
           /\ registers'.f.carry = registers.f.carry
           /\ [registers' EXCEPT !.f = registers.f] = registers]_vars

(* Cpl *)

\* Cpu::execute(instruction), called up to MaxSteps times in a row; the
\* operation recorded keeps the value A had before it
ExecuteUpTo(instructions) ==
    /\ status = "running"
    /\ steps < MaxSteps
    /\ steps' = steps + 1
    /\ \E instruction \in instructions : \E e \in {execute(Cpu, instruction)} :
        /\ Commit(e.cpu)
        /\ last' = Op("execute", instruction, 0, FALSE, 0, registers.a, e.next_pc)
    /\ UNCHANGED overflow_checks

CplInstructions == {I0("Cpl")}

NextCpl == ExecuteUpTo(CplInstructions)

SpecCpl == InitRegisters /\ [][NextCpl]_vars

\* C12: Cpl sets A to its bitwise complement and subtract and half-carry to
\* true, leaves carry, zero and every other register unchanged, and a Cpl that
\* follows a Cpl restores the A the first one found.
C12_CplComplementsA ==
    [][(last'.kind = "execute" /\ last'.instruction.op = "Cpl")
        => /\ status' = "running"
           /\ registers'.a = XorBits(registers.a, 255, 8)
           /\ \A i \in 0..7 : BitOf(registers'.a, i) # BitOf(registers.a, i)
           /\ registers'.f.subtract /\ registers'.f.half_carry
           /\ registers'.f.carry = registers.f.carry
           /\ registers'.f.zero = registers.f.zero
           /\ [registers' EXCEPT !.a = registers.a, !.f = registers.f] = registers
           /\ (last.kind = "execute" => registers'.a = last.value)]_vars

\* C12 witness: two Cpl in a row from A = 0b1100_1111 with carry set: A is
\* 0b1100_1111 again, the second Cpl found 0b0011_0000.
C12_Witness ==
    /\ steps = 2
    /\ last.instruction.op = "Cpl"
    /\ last.value = 48
    /\ registers.a = 207
    /\ registers.f.carry
    /\ registers.f.subtract

(* The flags register as a byte *)

\* registers.f = byte.into(), as in tests::set_f_as_u8
FromU8 ==
    /\ status = "running"
    /\ \E byte \in U8 :
        /\ registers' = [registers EXCEPT !.f = ByteToFlags(byte)]
        /\ last' = Op("from_u8", None, 0, FALSE, 0, byte, 0)
    /\ UNCHANGED <<pc, sp, bus, is_halted, overflow_checks, status, steps>>

\* let result: u8 = registers.f.into()
IntoU8 ==
    /\ status = "running"
    /\ last' = Op("into_u8", None, 0, FALSE, 0, FlagsToByte(registers.f), 0)
    /\ UNCHANGED <<registers, pc, sp, bus, is_halted, overflow_checks, status, steps>>

InitFlags == InitCpu(RegistersDefault, CpuDefault.pc, BusDefault)

NextFlags == FromU8 \/ IntoU8

SpecFlags == InitFlags /\ [][NextFlags]_vars

\* C13: flags -> byte -> flags is the identity; byte -> flags -> byte keeps the
\* high nibble and clears the low one; zero is bit 7, subtract bit 6,
\* half-carry bit 5, carry bit 4 and bits 3..0 of the byte form are 0.
C13_FlagConversionsInverse ==
    /\ ByteToFlags(FlagsToByte(registers.f)) = registers.f
    /\ last.kind = "from_u8"
        => /\ FlagsToByte(registers.f) = AndBits(last.value, 240, 8)
           /\ FlagsToByte(registers.f) = last.value - (last.value % 16)
    /\ last.kind = "into_u8"
        => /\ last.value \in U8
           /\ (BitOf(last.value, 7) = 1) = registers.f.zero
           /\ (BitOf(last.value, 6) = 1) = registers.f.subtract
           /\ (BitOf(last.value, 5) = 1) = registers.f.half_carry
           /\ (BitOf(last.value, 4) = 1) = registers.f.carry
           /\ last.value % 16 = 0

\* C13 witness: the byte 0b1001_1111 has been converted: zero and carry are
\* set, subtract and half-carry clear, and the flags convert back to
\* 0b1001_0000.
C13_Witness ==
    /\ last.kind = "from_u8"
    /\ last.value = 159
    /\ registers.f = [zero |-> TRUE, subtract |-> FALSE, half_carry |-> FALSE, carry |-> TRUE]
    /\ FlagsToByte(registers.f) = 144

(* The register pairs *)

\* 16-bit values for the pairs: every high byte, every low byte, and the
\* values around the carry boundaries
PairInputs ==
    {high * 256 + 205 : high \in U8} \cup {171 * 256 + low : low \in U8} \cup WordInputs

InitPairs ==
    \E v \in {0, 165}, f \in FlagsInputs :
        InitCpu(RegistersFrom(v, f), CpuDefault.pc, BusDefault)

\* registers.set_bc(value), set_de(value) or set_hl(value), called once
SetPair ==
    /\ status = "running"
    /\ last.kind = "init"
    /\ \E target \in TargetRegister16, value \in PairInputs :
        /\ registers' = CASE target = "BC" -> set_bc(registers, value)
                          [] target = "DE" -> set_de(registers, value)
                          [] target = "HL" -> set_hl(registers, value)
        /\ last' = Op("set_pair", I1("None", target), 0, FALSE, 0, value, 0)
    /\ UNCHANGED <<pc, sp, bus, is_halted, overflow_checks, status, steps>>

NextPairs == SetPair

SpecPairs == InitPairs /\ [][NextPairs]_vars

\* C14: after a pair is set to v, reading it gives v, its first register holds
\* the high byte of v and its second the low byte, and the registers outside
\* the pair and the flags are as before.
C14_PairRoundTrip ==
    [][last'.kind = "set_pair"
        => LET v == last'.value
               target == last'.instruction.r
               c1 == CpuOf(registers', pc', sp', bus', is_halted')
           IN  /\ get_r16_value(c1, target) = v
               /\ target = "BC" =>
                    /\ registers'.b = v \div 256 /\ registers'.c = v % 256
                    /\ [registers' EXCEPT !.b = registers.b, !.c = registers.c] = registers
               /\ target = "DE" =>
                    /\ registers'.d = v \div 256 /\ registers'.e = v % 256
                    /\ [registers' EXCEPT !.d = registers.d, !.e = registers.e] = registers
               /\ target = "HL" =>
                    /\ registers'.h = v \div 256 /\ registers'.l = v % 256
                    /\ [registers' EXCEPT !.h = registers.h, !.l = registers.l] = registers]_vars

\* C14 witness: DE has been set to 0xABCD: D is 0xAB, E is 0xCD and A still
\* holds 0xA5.
C14_Witness ==
    /\ last.kind = "set_pair"
    /\ last.instruction.r = "DE"
    /\ last.value = 43981
    /\ registers.d = 171
    /\ registers.e = 205
    /\ registers.a = 165
    /\ get_de(registers) = 43981

(* The AF pair and the stack *)

\* where the stack of the AF checks lies: sp points at two bytes of work RAM
StackBase == WORKING_RAM_START

\* the byte held above the low byte on that stack
StackHighByte == 165

\* a stack holding the word (StackHighByte, low) at sp = StackBase
InitAf ==
    \E low \in U8 :
        \E b1 \in {write_byte(BusDefault, StackBase, low).bus} :
            \E b2 \in {write_byte(b1, StackBase + 1, StackHighByte).bus} :
                InitCpuSp(RegistersDefault, CpuDefault.pc, StackBase, b2)

\* registers.set_af(value), called once
SetAf ==
    /\ status = "running"
    /\ last.kind = "init"
    /\ \E value \in PairInputs :
        /\ registers' = set_af(registers, value)
        /\ last' = Op("set_af", I1("None", "AF"), 0, FALSE, 0, value, 0)
    /\ UNCHANGED <<pc, sp, bus, is_halted, overflow_checks, status, steps>>

AfInstructions == {I1("Pop", "AF"), I1("Push", "AF")}

\* Pop AF and Push AF, executed in any order
AfStack ==
    /\ last.kind # "set_af"
    /\ ExecuteUpTo(AfInstructions)

NextAf == SetAf \/ AfStack

SpecAf == InitAf /\ [][NextAf]_vars

\* a Push AF that directly follows a Pop AF, both completed
PopThenPushAf ==
    /\ last.kind = "execute" /\ last.instruction = I1("Pop", "AF")
    /\ steps' = steps + 1
    /\ last'.kind = "execute" /\ last'.instruction = I1("Push", "AF")

\* C15 as claimed: AF read after being set to v is v, and a Push AF after a
\* Pop AF writes back the two bytes that were popped.
C15_AfRoundTripExact ==
    [][/\ last'.kind = "set_af" => get_af(registers') = last'.value
       /\ PopThenPushAf
            => /\ status' = "running"
               /\ sp' = sp - 2
               /\ read_byte(bus', sp') = read_byte(bus, sp')
               /\ read_byte(bus', sp' + 1) = read_byte(bus, sp' + 1)]_vars

\* C15 amended: AF read after being set to v is v with bits 3..0 cleared (so
\* it is v exactly when the low nibble of v is 0), A holds the high byte of v,
\* and a Push AF after a Pop AF writes back the high byte that was popped and
\* the low byte that was popped with its bits 3..0 cleared.
C15_AfRoundTripHighNibble ==
    [][/\ last'.kind = "set_af"
            => /\ get_af(registers') = last'.value - (last'.value % 16)
               /\ (get_af(registers') = last'.value) = (last'.value % 16 = 0)
               /\ registers'.a = last'.value \div 256
       /\ PopThenPushAf
            => /\ status' = "running"
               /\ sp' = sp - 2
               /\ read_byte(bus', sp').value
                    = AndBits(read_byte(bus, sp').value, 240, 8)
               /\ read_byte(bus', sp' + 1) = read_byte(bus, sp' + 1)]_vars

\* C15 witness: the stack held 0x9F below 0xA5; Pop AF and then Push AF have
\* run: sp is back at the stack, which now holds 0x90 below 0xA5.
C15_Witness ==
    /\ steps = 2
    /\ last.instruction = I1("Push", "AF")
    /\ status = "running"
    /\ sp = StackBase
    /\ registers.a = StackHighByte
    /\ registers.f = [zero |-> TRUE, subtract |-> FALSE, half_carry |-> FALSE, carry |-> TRUE]
    /\ read_byte(bus, StackBase) = Ok(144)
    /\ read_byte(bus, StackBase + 1) = Ok(StackHighByte)

(* Bit indices *)

\* u8 << amount and u8 >> amount: an amount of 8 or more is an overflow, which
\* panics under overflow checks and otherwise shifts by the amount modulo 8
CheckedShl(x, amount) ==
    IF amount >= 8
    THEN IF overflow_checks THEN Panicked("overflow") ELSE Ok(Shl(x, amount % 8))
    ELSE Ok(Shl(x, amount))

CheckedShr(x, amount) ==
    IF amount >= 8
    THEN IF overflow_checks THEN Panicked("overflow") ELSE Ok(Shr(x, amount % 8))
    ELSE Ok(Shr(x, amount))

\* U3::wrap(value), called once
Wrap ==
    /\ status = "running"
    /\ last.kind = "init"
    /\ \E value \in U8 :
        last' = Op("wrap", None, 0, FALSE, 0, value, U3_wrap(value))
    /\ UNCHANGED <<registers, pc, sp, bus, is_halted, overflow_checks, status, steps>>

\* byte << index and byte >> index, for the index U3::wrap has just made
ShiftByU3 ==
    /\ status = "running"
    /\ last.kind = "wrap"
    /\ \E byte \in U8, kind \in {"shl", "shr"} :
        \E r \in {IF kind = "shl" THEN CheckedShl(byte, last.returned)
                                  ELSE CheckedShr(byte, last.returned)} :
            /\ last' = Op(kind, IBit("None", last.returned, "-"), 0, FALSE, 0, byte, r.value)
            /\ status' = IF r.panic = "none" THEN "running" ELSE r.panic
    /\ UNCHANGED <<registers, pc, sp, bus, is_halted, overflow_checks, steps>>

InitU3 == InitCpu(RegistersDefault, CpuDefault.pc, BusDefault)

NextU3 == Wrap \/ ShiftByU3

SpecU3 == InitU3 /\ [][NextU3]_vars

\* C16: U3::wrap(v) holds v & 7, which lies in 0..7, wrap(9) is wrap(1), and a
\* shift of a byte by a U3 shifts by at most 7 bits and so never overflows.
C16_U3WrapMasks ==
    /\ last.kind = "wrap"
        => /\ last.returned = AndBits(last.value, 7, 8)
           /\ last.returned = last.value % 8
           /\ last.returned \in 0..7
           /\ (last.value = 9 => last.returned = U3_wrap(1))
    /\ last.kind \in {"shl", "shr"}
        => /\ status = "running"
           /\ last.instruction.index <= 7
           /\ (last.kind = "shl"
                => last.returned = (last.value * 2^(last.instruction.index)) % 256)
           /\ (last.kind = "shr"
                => last.returned = last.value \div 2^(last.instruction.index))

\* C16 witness: a byte with bit 0 set has been shifted left by the index 7 that
\* U3::wrap returned: the result is 0x80.
C16_Witness ==
    /\ last.kind = "shl"
    /\ last.instruction.index = 7
    /\ last.value = 255
    /\ last.returned = 128
    /\ status = "running"

(* Video memory and the tile cache *)

\* offsets into video memory: the first row of the first tile, the first byte
\* of the second tile, the last row of the last tile and the first byte after
\* the tiles
VramOffsets ==
    {0, 1, 16, TILESET_STORAGE_END - 2, TILESET_STORAGE_END - 1, TILESET_STORAGE_END}

VramValues == {0, 165, 255}

\* bus.write_byte(address, value) for an address of video memory
WriteVram ==
    /\ status = "running"
    /\ steps < MaxVramWrites
    /\ steps' = steps + 1
    /\ \E offset \in VramOffsets, value \in VramValues :
        \E w \in {write_byte(bus, VRAM_BEGIN + offset, value)} :
            /\ bus' = w.bus
            /\ last' = Op("write_byte", None, 0, FALSE, VRAM_BEGIN + offset, value, 0)
            /\ status' = IF w.panic = "none" THEN "running" ELSE w.panic
    /\ UNCHANGED <<registers, pc, sp, is_halted, overflow_checks>>

InitVram == InitCpu(RegistersDefault, CpuDefault.pc, BusDefault)

NextVram == WriteVram

SpecVram == InitVram /\ [][NextVram]_vars

\* the raw byte of video memory at an offset
VramByte(offset) == read_vram(bus.gpu, offset).value

\* the pixel values in the order of their 2-bit codes
PixelOfCode == <<"Zero", "One", "Two", "Three">>

\* C17: after any sequence of video-memory writes, for every tile t < 384, row
\* r < 8 and pixel p < 8, tile_set[t][r][p] is the value whose code is
\* 2 * (bit 7-p of vram[16t + 2r + 1]) + (bit 7-p of vram[16t + 2r]). A row
\* neither of whose bytes was ever non-zero is checked in one step: both bytes
\* are 0 and all its pixels are Zero.
C17_TileCacheFollowsVram ==
    /\ status = "running"
    /\ \A keys \in {DOMAIN bus.gpu.tile_set}, cells \in {DOMAIN bus.gpu.vram} :
        \A t \in 0..(TILE_COUNT - 1) : \A r \in 0..7 :
            IF /\ <<t, r>> \notin keys
               /\ (16 * t) + (2 * r) \notin cells
               /\ (16 * t) + (2 * r) + 1 \notin cells
            THEN /\ TileRow(bus.gpu, t, r) = [p \in 0..7 |-> PixelOfCode[1]]
                 /\ VramByte((16 * t) + (2 * r)) = 0
                 /\ VramByte((16 * t) + (2 * r) + 1) = 0
            ELSE \A p \in 0..7 :
                TileRow(bus.gpu, t, r)[p]
                    = PixelOfCode[1 + (2 * BitOf(VramByte((16 * t) + (2 * r) + 1), 7 - p))
                                    + BitOf(VramByte((16 * t) + (2 * r)), 7 - p)]

\* C17 witness: 0xFF has been written to offset 0 and then 0x00 to offset 1:
\* all 8 pixels of row 0 of tile 0 are One.
C17_Witness ==
    /\ steps = 2
    /\ last.address = VRAM_BEGIN + 1
    /\ last.value = 0
    /\ VramByte(0) = 255
    /\ TileRow(bus.gpu, 0, 0) = [p \in 0..7 |-> "One"]

(* Halt *)

\* C18: the halted flag is false before the first step, becomes true only in a
\* step that executes Halt, is never reset once true, and the step that
\* executes Halt changes no register, no flag, not sp and no memory cell.
C18_HaltedFlag ==
    /\ [](steps = 0 => ~is_halted)
    /\ [][/\ (~is_halted /\ is_halted')
                => (last'.kind = "step" /\ last'.instruction.op = "Halt")
          /\ is_halted => is_halted'
          /\ (~is_halted /\ steps' = steps + 1 /\ last'.instruction.op = "Halt")
                => /\ is_halted'
                   /\ registers' = registers
                   /\ sp' = sp
                   /\ bus' = bus]_vars

\* C18 witness: Halt has run and a later step was taken: the flag is still
\* set.
C18_Witness ==
    /\ is_halted
    /\ steps >= 2
    /\ last.kind = "step"
    /\ last.instruction.op # "Halt"
    /\ status = "running"

(* Call and Ret *)

\* Cpu::step where the opcode byte at pc decodes to one of the instructions:
\* read the byte at pc, execute the instruction and store the address it
\* returns in pc; the operation recorded keeps the address of the instruction
\* and the sp it found
RunInstruction(instructions) ==
    /\ status = "running"
    /\ steps < MaxSteps
    /\ steps' = steps + 1
    /\ \E first \in {read_byte(bus, pc)} :
        IF first.panic # "none"
        THEN /\ Commit(Panic(Cpu, first.panic))
             /\ last' = Op("run", None, 0, FALSE, pc, sp, pc)
        ELSE \E instruction \in instructions : \E s \in {step(Cpu, instruction)} :
                /\ Commit(s.cpu)
                /\ last' = Op("run", instruction, 0, FALSE, pc, sp, s.next_pc)
    /\ UNCHANGED overflow_checks

\* a Call at the start of work RAM with its two operand bytes behind it, the
\* stack at the top of high RAM or at the top of work RAM
InitCallRet ==
    \E low \in BusValues, high \in BusValues, f \in FlagsInputs,
       s \in {CpuDefault.sp, WORKING_RAM_END + 1} :
        \E b1 \in {write_byte(BusDefault, ProgramBase + 1, low).bus} :
            \E b2 \in {write_byte(b1, ProgramBase + 2, high).bus} :
                InitCpuSp([RegistersDefault EXCEPT !.f = f], ProgramBase, s, b2)

CallRetInstructions == {I1("Call", t) : t \in JumpTest} \cup {I1("Ret", t) : t \in JumpTest}

NextCallRet == RunInstruction(CallRetInstructions)

SpecCallRet == InitCallRet /\ [][NextCallRet]_vars

\* C19: a taken Call at address p pushes p + 3 (high byte at sp - 1, low byte
\* at sp - 2, sp decreased by 2) and continues at the little-endian word held
\* at p + 1 and p + 2; a Call not taken changes neither sp nor memory and
\* continues at p + 3.
C19_CallPushesReturnAddress ==
    [][(last'.kind = "run" /\ last'.instruction.op = "Call")
        => IF get_jump_test_result(Cpu, last'.instruction.r)
           THEN /\ status' = "running"
                /\ sp' = (sp - 2) % 65536
                /\ read_byte(bus', (sp - 1) % 65536) = Ok(((pc + 3) % 65536) \div 256)
                /\ read_byte(bus', (sp - 2) % 65536) = Ok((pc + 3) % 256)
                /\ pc' = (read_byte(bus, (pc + 2) % 65536).value * 256)
                            + read_byte(bus, (pc + 1) % 65536).value
           ELSE /\ status' = "running"
                /\ sp' = sp
                /\ bus' = bus
                /\ pc' = (pc + 3) % 65536]_vars

\* C20: a taken Ret continues at the word it pops (low byte at sp, high byte at
\* sp + 1) with sp increased by 2, a Ret not taken continues at pc + 1 with sp
\* unchanged, and a taken Ret that directly follows a taken Call at address p
\* continues at p + 3 with sp as it was before the Call.
C20_CallRetPairUp ==
    [][(last'.kind = "run" /\ last'.instruction.op = "Ret" /\ status' = "running")
        => IF get_jump_test_result(Cpu, last'.instruction.r)
           THEN /\ sp' = (sp + 2) % 65536
                /\ pc' = (read_byte(bus, (sp + 1) % 65536).value * 256)
                            + read_byte(bus, sp).value
                /\ (last.kind = "run" /\ last.instruction.op = "Call" /\ sp # last.value)
                        => (pc' = (last.address + 3) % 65536 /\ sp' = last.value)
           ELSE /\ sp' = sp
                /\ pc' = (pc + 1) % 65536]_vars

(* Jp *)

\* the addresses a Jp is run at: the start of work RAM, and the last address
\* of high RAM whose two operand bytes are still in high RAM
JpAddresses == {ProgramBase, HIGH_RAM_END - 2}

\* a Jp with its two operand bytes behind it, written by the host, under every
\* value of the zero and the carry flag
InitJp ==
    \E p \in JpAddresses, low \in BusValues, high \in BusValues,
       zero \in BOOLEAN, carry \in BOOLEAN :
        \E b1 \in {write_byte(BusDefault, p + 1, low).bus} :
            \E b2 \in {write_byte(b1, p + 2, high).bus} :
                InitCpu([RegistersDefault EXCEPT !.f.zero = zero, !.f.carry = carry], p, b2)

JpInstructions == {I1("Jp", t) : t \in JumpTest}

NextJp == RunInstruction(JpInstructions)

SpecJp == InitJp /\ [][NextJp]_vars

\* C21: Jp(condition) is taken when the condition holds of the flags (Always:
\* always, Zero: zero set, NotZero: zero clear, Carry: carry set, NotCarry:
\* carry clear); taken, it continues at the word whose low byte is at pc + 1
\* and whose high byte is at pc + 2, not taken at pc + 3; registers, flags, sp
\* and memory stay as they were.
C21_JpJumpsOnCondition ==
    [][(last'.kind = "run" /\ last'.instruction.op = "Jp")
        => LET condition == last'.instruction.r
               taken == \/ condition = "Always"
                        \/ condition = "Zero" /\ registers.f.zero
                        \/ condition = "NotZero" /\ ~registers.f.zero
                        \/ condition = "Carry" /\ registers.f.carry
                        \/ condition = "NotCarry" /\ ~registers.f.carry
           IN  /\ status' = "running"
               /\ pc' = IF taken
                        THEN read_byte(bus, pc + 1).value
                                + 256 * read_byte(bus, pc + 2).value
                        ELSE (pc + 3) % 65536
               /\ UNCHANGED <<registers, sp, bus>>]_vars

\* C21 witness: Jp(Carry) at the start of work RAM, with carry set and zero
\* clear, has jumped to 0xA500: the operand bytes are 0x00 and then 0xA5.
C21_Witness ==
    /\ steps = 1
    /\ last.instruction = I1("Jp", "Carry")
    /\ last.address = ProgramBase
    /\ registers.f.carry /\ ~registers.f.zero
    /\ read_byte(bus, ProgramBase + 1) = Ok(0)
    /\ read_byte(bus, ProgramBase + 2) = Ok(165)
    /\ pc = 42240
    /\ status = "running"

(* Push and Pop *)

\* the values of A the stack checks start from: the other registers follow by
\* RegistersFrom, so that the two bytes of every pair differ
StackInputs == {0, 18, 165, 255}

\* where the stack starts: above the last cell of work RAM, and at the last
\* cell of high RAM as Cpu::default() has it (the cell at sp itself is never
\* written by a Push)
StackPointers == {WORKING_RAM_END + 1, CpuDefault.sp}

InitStack ==
    \E v \in StackInputs, f \in FlagsInputs, s \in StackPointers :
        InitCpuSp(RegistersFrom(v, f), ProgramBase, s, BusDefault)

StackInstructions == {I1("Push", t) : t \in StackTarget} \cup {I1("Pop", t) : t \in StackTarget}

NextStack == RunInstruction(StackInstructions)

SpecStack == InitStack /\ [][NextStack]_vars

\* the two cells below sp are in work RAM or high RAM
StackCellsWritable(s) ==
    \A cell \in {(s - 1) % 65536, (s - 2) % 65536} :
        write_region(cell) \in {"WORKING_RAM", "HIGH_RAM"}

\* C22: with the two cells below sp in writable RAM, Push of a pair holding v
\* decreases sp by 2 and leaves the high byte of v at old sp - 1 and the low
\* byte at old sp - 2; Pop reads the low byte at sp and the high byte at
\* sp + 1, increases sp by 2 and stores the word in its pair (in AF: the high
\* byte in A, the high nibble of the low byte in the flags); a Pop that
\* directly follows a Push reads the value pushed and restores sp.
C22_PushPopRoundTrip ==
    [][/\ (last'.kind = "run" /\ last'.instruction.op = "Push" /\ StackCellsWritable(sp))
            => LET v == get_stack_target_value(Cpu, last'.instruction.r)
               IN  /\ status' = "running"
                   /\ sp' = (sp - 2) % 65536
                   /\ read_byte(bus', (sp - 1) % 65536) = Ok(v \div 256)
                   /\ read_byte(bus', (sp - 2) % 65536) = Ok(v % 256)
                   /\ registers' = registers
       /\ (last'.kind = "run" /\ last'.instruction.op = "Pop" /\ status' = "running")
            => LET low == read_byte(bus, sp).value
                   high == read_byte(bus, (sp + 1) % 65536).value
                   target == last'.instruction.r
                   after == CpuOf(registers', pc', sp', bus', is_halted')
               IN  /\ sp' = (sp + 2) % 65536
                   /\ bus' = bus
                   /\ IF target = "AF"
                      THEN /\ registers'.a = high
                           /\ FlagsToByte(registers'.f) = low - (low % 16)
                      ELSE get_stack_target_value(after, target) = high * 256 + low
                   /\ (last.kind = "run" /\ last.instruction.op = "Push"
                            /\ StackCellsWritable(last.value))
                        => /\ high * 256 + low
                                = get_stack_target_value(Cpu, last.instruction.r)
                           /\ sp' = last.value]_vars

\* C22 witness: Push BC and then Pop DE from the top of work RAM, with
\* B = 0x37 and C = 0x5C: DE holds 0x375C, sp is back above work RAM and the
\* two bytes are still on the stack, high byte above low byte.
C22_Witness ==
    /\ steps = 2
    /\ last.instruction = I1("Pop", "DE")
    /\ status = "running"
    /\ get_bc(registers) = 14172
    /\ get_de(registers) = 14172
    /\ sp = WORKING_RAM_END + 1
    /\ read_byte(bus, WORKING_RAM_END) = Ok(55)
    /\ read_byte(bus, WORKING_RAM_END - 1) = Ok(92)

(* Ld *)

\* the cell HL addresses in the load checks, in work RAM behind the program
LoadCell == ProgramBase + 16

\* a Ld at the start of work RAM with the immediate byte 0x7E behind it, HL
\* addressing a cell that holds 0x3C, and the other registers from
\* RegistersFrom
InitLd ==
    \E v \in StackInputs, f \in FlagsInputs :
        \E b1 \in {write_byte(BusDefault, ProgramBase + 1, 126).bus} :
            \E b2 \in {write_byte(b1, LoadCell, 60).bus} :
                InitCpu(set_hl(RegistersFrom(v, f), LoadCell), ProgramBase, b2)

LdInstructions ==
    {ILd(target, source) : target \in LoadByteTarget, source \in LoadByteSource}
    \cup {Instr("Ld", "-", 0, load_type, "-") : load_type \in LoadType \ {"Byte"}}

\* one Ld, run on the initial state
NextLd == last.kind = "init" /\ RunInstruction(LdInstructions)

SpecLd == InitLd /\ [][NextLd]_vars

OperandInputs == {0, 1, 15, 16, 127, 128, 240, 254, 255}

\* A = x for every 8-bit x, every other register = y, the flags all clear or
\* all set
InitAlu ==
    \E x \in U8, y \in OperandInputs, f \in FlagsInputs :
        InitCpu([a |-> x, b |-> y, c |-> y, d |-> y, e |-> y, f |-> f, h |-> y, l |-> y],
                CpuDefault.pc, BusDefault)

AdcInstructions == {I1("Adc", r) : r \in TargetRegister8}

NextAdc == ExecuteOnce(AdcInstructions)

SpecAdc == InitAlu /\ [][NextAdc]_vars

\* C24: Adc of an operand register holding y to A holding x with old carry c
\* completes and sets A to (x + y + c) mod 256, carry iff x + y + c > 255,
\* zero iff the result is 0 and subtract to false, for every x, y and c,
\* y = 0xFF with c = 1 included.
C24_AdcWraps ==
    [][(last'.kind = "execute" /\ last'.instruction.op = "Adc")
        => LET x == registers.a
               y == get_r8_value(Cpu, last'.instruction.r)
               c == BoolBit(registers.f.carry)
           IN  /\ status' = "running"
               /\ registers'.a = (x + y + c) % 256
               /\ registers'.f.carry = (x + y + c > 255)
               /\ registers'.f.zero = ((x + y + c) % 256 = 0)
               /\ registers'.f.subtract = FALSE]_vars

SubInstructions == {I1("Sub", r) : r \in TargetRegister8} \cup {I1("Sbc", r) : r \in TargetRegister8}

NextSub == ExecuteOnce(SubInstructions)

SpecSub == InitAlu /\ [][NextSub]_vars

\* C25: Sub of an operand register holding y from A holding x sets A to
\* (x - y) mod 256 and Sbc, with old carry c, to (x - y - c) mod 256; both
\* complete for every x, y and c (y = 0xFF with c = 1 included) and set
\* subtract to true, zero iff the result is 0, carry iff y > x (Sub) or
\* y + c > x (Sbc), and half-carry iff the low nibbles of x and of the result
\* sum to 15 or more.
C25_SubSbcWrap ==
    [][(last'.kind = "execute" /\ last'.instruction.op \in {"Sub", "Sbc"})
        => LET x == registers.a
               y == get_r8_value(Cpu, last'.instruction.r)
               c == IF last'.instruction.op = "Sbc" THEN BoolBit(registers.f.carry) ELSE 0
               result == (x - y - c) % 256
           IN  /\ status' = "running"
               /\ registers'.a = result
               /\ registers'.f.subtract = TRUE
               /\ registers'.f.zero = (result = 0)
               /\ registers'.f.carry = (y + c > x)
               /\ registers'.f.half_carry = ((x % 16) + (result % 16) >= 15)]_vars

\* C25, the Sub half alone
SubWraps ==
    [][(last'.kind = "execute" /\ last'.instruction.op = "Sub")
        => LET x == registers.a
               y == get_r8_value(Cpu, last'.instruction.r)
               result == (x - y) % 256
           IN  /\ status' = "running"
               /\ registers'.a = result
               /\ registers'.f.subtract = TRUE
               /\ registers'.f.zero = (result = 0)
               /\ registers'.f.carry = (y > x)
               /\ registers'.f.half_carry = ((x % 16) + (result % 16) >= 15)]_vars

CpInstructions == {I1("Cp", r) : r \in TargetRegister8}

NextCp == ExecuteOnce(CpInstructions)

SpecCp == InitAlu /\ [][NextCp]_vars

\* C26: Cp of an operand register leaves the four flags as Sub of the same
\* register would leave them from the same registers (subtract set, zero iff
\* A equals the operand, carry iff the operand is above A), and leaves A and
\* every other register unchanged.
C26_CpIsSubWithoutStore ==
    [][(last'.kind = "execute" /\ last'.instruction.op = "Cp")
        => LET r == last'.instruction.r
               x == registers.a
               y == get_r8_value(Cpu, r)
           IN  /\ status' = "running"
               /\ registers'.f = execute(Cpu, I1("Sub", r)).cpu.registers.f
               /\ registers'.f.subtract
               /\ registers'.f.zero = (x = y)
               /\ registers'.f.carry = (y > x)
               /\ [registers' EXCEPT !.f = registers.f] = registers]_vars

\* C26 witness: Cp B has compared A = 0x90 with B = 0x01: A is still 0x90,
\* subtract and half-carry are set as Sub B sets them, zero and carry clear.
C26_Witness ==
    /\ last.kind = "execute"
    /\ last.instruction = I1("Cp", "B")
    /\ status = "running"
    /\ registers.a = 144
    /\ registers.b = 1
    /\ registers.f = [zero |-> FALSE, subtract |-> TRUE, half_carry |-> TRUE, carry |-> FALSE]

LogicInstructions == {I1(op, r) : op \in {"And", "Or", "Xor"}, r \in TargetRegister8}

NextLogic == ExecuteOnce(LogicInstructions)

SpecLogic == InitAlu /\ [][NextLogic]_vars

\* C27: And, Or and Xor of an operand register holding y with A holding x set
\* every bit of A to the and, or, xor of that bit of x and of y, subtract and
\* carry to false, half-carry to true for And and to false for Or and Xor, and
\* zero to true exactly when x was 0, whatever the new A is.
C27_LogicFlagsBeforeUpdate ==
    [][(last'.kind = "execute" /\ last'.instruction.op \in {"And", "Or", "Xor"})
        => LET op == last'.instruction.op
               x == registers.a
               y == get_r8_value(Cpu, last'.instruction.r)
           IN  /\ status' = "running"
               /\ \A i \in 0..7 :
                    BitOf(registers'.a, i)
                        = CASE op = "And" -> BitOf(x, i) * BitOf(y, i)
                            [] op = "Or" -> BitOf(x, i) + BitOf(y, i) - BitOf(x, i) * BitOf(y, i)
                            [] op = "Xor" -> (BitOf(x, i) + BitOf(y, i)) % 2
               /\ registers'.f.subtract = FALSE
               /\ registers'.f.carry = FALSE
               /\ registers'.f.half_carry = (op = "And")
               /\ registers'.f.zero = (x = 0)
               /\ [registers' EXCEPT !.a = x, !.f = registers.f] = registers]_vars

\* C27 witness: And B has run on A = 0xF0 and B = 0x0F: A is 0 and the zero
\* flag is clear, because A was not 0 before.
C27_Witness ==
    /\ last.kind = "execute"
    /\ last.instruction = I1("And", "B")
    /\ status = "running"
    /\ registers.a = 0
    /\ registers.b = 15
    /\ registers.f = [zero |-> FALSE, subtract |-> FALSE, half_carry |-> TRUE, carry |-> FALSE]

(* Inc and Dec *)

IncInstructions == {I1("Inc", r) : r \in TargetRegister8}

NextInc == ExecuteOnce(IncInstructions)

SpecInc == InitRegisters /\ [][NextInc]_vars

\* C28: Inc of a register holding v completes and sets the register to
\* (v + 1) mod 256, zero iff that is 0, subtract to false and half-carry iff
\* the low nibble of v was 0xF, and leaves the carry flag and every other
\* register unchanged, for every v, 0xFF included.
C28_IncWraps ==
    [][(last'.kind = "execute" /\ last'.instruction.op = "Inc")
        => LET r == last'.instruction.r
               v == get_r8_value(Cpu, r)
               after == CpuOf(registers', pc', sp', bus', is_halted')
           IN  /\ status' = "running"
               /\ get_r8_value(after, r) = (v + 1) % 256
               /\ registers'.f.zero = ((v + 1) % 256 = 0)
               /\ registers'.f.subtract = FALSE
               /\ registers'.f.half_carry = (v % 16 = 15)
               /\ registers'.f.carry = registers.f.carry
               /\ \A other \in TargetRegister8 \ {r} :
                    get_r8_value(after, other) = get_r8_value(Cpu, other)]_vars

DecInstructions == {I1("Dec", r) : r \in TargetRegister8}

NextDec == ExecuteOnce(DecInstructions)

SpecDec == InitRegisters /\ [][NextDec]_vars

\* C29: Dec of a register holding v completes and sets the register to
\* (v - 1) mod 256, zero iff that is 0, subtract to false and half-carry to
\* true unless the low nibble of the new value is 0xF, and leaves the carry
\* flag unchanged, for every v, 0 included.
C29_DecWraps ==
    [][(last'.kind = "execute" /\ last'.instruction.op = "Dec")
        => LET r == last'.instruction.r
               v == get_r8_value(Cpu, r)
               after == CpuOf(registers', pc', sp', bus', is_halted')
           IN  /\ status' = "running"
               /\ get_r8_value(after, r) = (v - 1) % 256
               /\ registers'.f.zero = ((v - 1) % 256 = 0)
               /\ registers'.f.subtract = FALSE
               /\ registers'.f.half_carry = (((v - 1) % 256) % 16 # 15)
               /\ registers'.f.carry = registers.f.carry]_vars

(* Res and Set *)

\* Res or Set of one bit of one register, up to MaxBitSteps times in a row on
\* the same bit of the same register
NextBits ==
    \E i \in 0..U3_MAX, r \in TargetRegister8 :
        /\ steps < MaxBitSteps
        /\ last.kind = "init" \/ (last.instruction.index = i /\ last.instruction.r = r)
        /\ ExecuteUpTo({IBit("Res", i, r), IBit("Set", i, r)})

SpecBits == InitRegisters /\ [][NextBits]_vars

\* C30: Res(i, r) leaves bit i of r clear and Set(i, r) leaves it set; both
\* leave the other seven bits of r, every other register and the four flags
\* unchanged; a Res after a Res and a Set after a Set of the same bit change
\* nothing, and a Res after a Set leaves the bit clear.
C30_ResSetOneBit ==
    [][(last'.kind = "execute" /\ last'.instruction.op \in {"Res", "Set"})
        => LET op == last'.instruction.op
               i == last'.instruction.index
               r == last'.instruction.r
               after == CpuOf(registers', pc', sp', bus', is_halted')
           IN  /\ status' = "running"
               /\ BitOf(get_r8_value(after, r), i) = (IF op = "Set" THEN 1 ELSE 0)
               /\ \A j \in (0..7) \ {i} :
                    BitOf(get_r8_value(after, r), j) = BitOf(get_r8_value(Cpu, r), j)
               /\ \A other \in TargetRegister8 \ {r} :
                    get_r8_value(after, other) = get_r8_value(Cpu, other)
               /\ registers'.f = registers.f
               /\ (last.kind = "execute" /\ last.instruction = last'.instruction)
                    => registers' = registers
               /\ (last.kind = "execute" /\ last.instruction.op = "Set" /\ op = "Res")
                    => /\ BitOf(get_r8_value(Cpu, r), i) = 1
                       /\ get_r8_value(after, r) = get_r8_value(Cpu, r) - Pow2(i)]_vars

\* C30 witness: Res(3, A) as the second instruction, on A = 0b1101_1111 with
\* bit 3 set: A is 0b1101_0111.
C30_Witness ==
    /\ steps = 2
    /\ last.instruction = IBit("Res", 3, "A")
    /\ status = "running"
    /\ last.value = 223
    /\ registers.a = 215

(* Rotates and shifts *)

\* the rotates of register A that take no operand
AccumulatorRotates == {"Rra", "Rla", "Rrca", "Rlca"}

RotateInstructions ==
    {I1(op, r) : op \in {"Rr", "Rl", "Rrc", "Rlc", "Srl", "Sra", "Sla"}, r \in TargetRegister8}
    \cup {I0(op) : op \in AccumulatorRotates}

NextRotate == ExecuteOnce(RotateInstructions)

SpecRotate == InitRegisters /\ [][NextRotate]_vars

\* the register a rotate or shift works on
RotateTarget(instruction) ==
    IF instruction.op \in AccumulatorRotates THEN "A" ELSE instruction.r

\* C31: every rotate and shift sets carry to the bit shifted off the end (old
\* bit 0 for Rr, Rra, Rrc, Rrca, Srl, Sra; old bit 7 for Rl, Rla, Rlc, Rlca,
\* Sla), subtract and half-carry to false, and zero to true iff the new
\* register value is 0, except Rlc and Rlca, which always set zero to false.
C31_RotateShiftFlags ==
    [][(last'.kind = "execute" /\ last'.instruction \in RotateInstructions)
        => LET op == last'.instruction.op
               target == RotateTarget(last'.instruction)
               v == get_r8_value(Cpu, target)
               after == CpuOf(registers', pc', sp', bus', is_halted')
               new_value == get_r8_value(after, target)
           IN  /\ status' = "running"
               /\ registers'.f.carry
                    = IF op \in {"Rr", "Rra", "Rrc", "Rrca", "Srl", "Sra"}
                      THEN BitOf(v, 0) = 1
                      ELSE BitOf(v, 7) = 1
               /\ registers'.f.subtract = FALSE
               /\ registers'.f.half_carry = FALSE
               /\ registers'.f.zero
                    = IF op \in {"Rlc", "Rlca"} THEN FALSE ELSE new_value = 0]_vars

\* C31 witness: Rlc B has run on B = 0: B is still 0 and the zero flag is
\* clear, as are the three other flags.
C31_Witness ==
    /\ last.kind = "execute"
    /\ last.instruction = I1("Rlc", "B")
    /\ status = "running"
    /\ registers.b = 0
    /\ registers.f = FlagsDefault

\* the rotates
RotateOnlyInstructions ==
    {I1(op, r) : op \in {"Rr", "Rl", "Rrc", "Rlc"}, r \in TargetRegister8}
    \cup {I0(op) : op \in AccumulatorRotates}

\* Cpu::execute of a rotate, and then of Rlc (Rlca after a rotate of the
\* accumulator) on the same register, up to MaxRotates instructions in all;
\* the operation recorded keeps in `value` the value the register had before
\* the first rotate and in `address` the number of Rlc run in a row so far
RotateChain ==
    /\ status = "running"
    /\ steps < MaxRotates
    /\ steps' = steps + 1
    /\ \E instruction \in
            (IF last.kind = "init" THEN RotateOnlyInstructions
             ELSE IF last.instruction.op \in AccumulatorRotates THEN {I0("Rlca")}
             ELSE {I1("Rlc", last.instruction.r)}) :
        \E e \in {execute(Cpu, instruction)} :
            /\ Commit(e.cpu)
            /\ last' = Op("execute", instruction, 0, FALSE,
                          IF instruction.op \in {"Rlc", "Rlca"} THEN last.address + 1 ELSE 0,
                          IF last.kind = "init"
                          THEN get_r8_value(Cpu, RotateTarget(instruction))
                          ELSE last.value,
                          e.next_pc)
    /\ UNCHANGED overflow_checks

NextRotateChain == RotateChain

SpecRotateChain == InitRegisters /\ [][NextRotateChain]_vars

\* C32: Rr and Rra shift right with the old carry entering bit 7, Rl and Rla
\* shift left with the old carry entering bit 0, Rrc and Rrca shift right with
\* old bit 0 entering bit 7, Rlc and Rlca shift left with old bit 7 entering
\* bit 0; Rlc after Rrc on the same register restores the value, and so do
\* eight Rlc in a row.
C32_RotatesRotate ==
    [][(last'.kind = "execute" /\ last'.instruction \in RotateOnlyInstructions)
        => LET op == last'.instruction.op
               target == RotateTarget(last'.instruction)
               v == get_r8_value(Cpu, target)
               c == BoolBit(registers.f.carry)
               after == CpuOf(registers', pc', sp', bus', is_halted')
               new_value == get_r8_value(after, target)
           IN  /\ status' = "running"
               /\ new_value
                    = CASE op \in {"Rr", "Rra"} -> c * 128 + (v \div 2)
                        [] op \in {"Rl", "Rla"} -> ((v * 2) % 256) + c
                        [] op \in {"Rrc", "Rrca"} -> (v % 2) * 128 + (v \div 2)
                        [] op \in {"Rlc", "Rlca"} -> ((v * 2) % 256) + (v \div 128)
               /\ (steps' = 2 /\ last.instruction.op \in {"Rrc", "Rrca"})
                    => new_value = last.value
               /\ (last'.address = 8) => new_value = last'.value]_vars

\* C32, without Rlc and Rlca: the three other rotates
RotatesButRlc ==
    [][(last'.kind = "execute" /\ last'.instruction \in RotateOnlyInstructions
            /\ last'.instruction.op \notin {"Rlc", "Rlca"})
        => LET op == last'.instruction.op
               target == RotateTarget(last'.instruction)
               v == get_r8_value(Cpu, target)
               c == BoolBit(registers.f.carry)
               after == CpuOf(registers', pc', sp', bus', is_halted')
           IN  /\ status' = "running"
               /\ get_r8_value(after, target)
                    = CASE op \in {"Rr", "Rra"} -> c * 128 + (v \div 2)
                        [] op \in {"Rl", "Rla"} -> ((v * 2) % 256) + c
                        [] op \in {"Rrc", "Rrca"} -> (v % 2) * 128 + (v \div 2)]_vars

(* Swap *)

\* Swap of one register, up to MaxBitSteps times in a row on the same register
NextSwap ==
    \E r \in TargetRegister8 :
        /\ steps < MaxBitSteps
        /\ last.kind = "init" \/ last.instruction.r = r
        /\ ExecuteUpTo({I1("Swap", r)})

SpecSwap == InitRegisters /\ [][NextSwap]_vars

\* C33: Swap sets the upper nibble of the register to its old lower nibble and
\* the lower nibble to its old upper nibble, sets the four flags to false
\* whatever the result, leaves the other registers unchanged, and every second
\* Swap of the same register leaves the value the register had before the
\* first (which the initial registers give as a distance from A, and the
\* operation recorded gives for A itself).
C33_SwapExchangesNibbles ==
    [][(last'.kind = "execute" /\ last'.instruction.op = "Swap")
        => LET r == last'.instruction.r
               v == get_r8_value(Cpu, r)
               after == CpuOf(registers', pc', sp', bus', is_halted')
               new_value == get_r8_value(after, r)
               first == IF r = "A" THEN RegistersFrom(last.value, registers.f)
                        ELSE RegistersFrom(registers.a, registers.f)
           IN  /\ status' = "running"
               /\ new_value \div 16 = v % 16
               /\ new_value % 16 = v \div 16
               /\ registers'.f = FlagsDefault
               /\ \A other \in TargetRegister8 \ {r} :
                    get_r8_value(after, other) = get_r8_value(Cpu, other)
               /\ (last.kind = "execute" /\ last.instruction.op = "Swap" /\ steps' % 2 = 0)
                    => new_value = get_r8_value([Cpu EXCEPT !.registers = first], r)]_vars

\* C33 witness: two Swap A in a row from A = 0b1100_1111: the second found
\* 0b1111_1100 and left 0b1100_1111, with the four flags clear.
C33_Witness ==
    /\ steps = 2
    /\ last.instruction = I1("Swap", "A")
    /\ status = "running"
    /\ last.value = 252
    /\ registers.a = 207
    /\ registers.f = FlagsDefault

(* The boot ROM overlay *)

\* the boot ROM is unmapped: boot_rom becomes None
UnmapBoot ==
    /\ status = "running"
    /\ bus.boot_rom.some
    /\ bus' = [bus EXCEPT !.boot_rom.some = FALSE]
    /\ last' = Op("unmap_boot", None, 0, FALSE, 0, 0, 0)
    /\ UNCHANGED <<registers, pc, sp, is_halted, overflow_checks, steps, status>>

NextBoot == ReadByte \/ WriteByte \/ UnmapBoot

SpecBoot == InitBus /\ [][NextBoot]_vars

\* C34: for an address in 0x0000..0x00FF, read_byte returns the byte of the
\* boot ROM while the boot ROM is mapped, whatever the fixed ROM bank holds
\* there, and the byte of the fixed ROM bank once it is unmapped; write_byte
\* stores into the fixed ROM bank, so that once the boot ROM is unmapped the
\* byte written is the byte read back.
C34_BootOverlayShadowsBank0 ==
    [][/\ (last'.kind = "read_byte" /\ InRange(last'.address, BOOT_ROM_START, BOOT_ROM_END))
            => /\ status' = "running"
               /\ last'.value
                    = IF bus.boot_rom.some
                      THEN Index(bus.boot_rom.data, BOOT_ROM_SIZE, last'.address).value
                      ELSE Index(bus.rom_bank_0, GAME_ROM_BANK_0_SIZE, last'.address).value
       /\ (last'.kind = "write_byte" /\ InRange(last'.address, BOOT_ROM_START, BOOT_ROM_END))
            => /\ status' = "running"
               /\ Index(bus'.rom_bank_0, GAME_ROM_BANK_0_SIZE, last'.address)
                    = Ok(last'.value)
               /\ bus'.boot_rom = bus.boot_rom
               /\ read_byte(bus', last'.address)
                    = IF bus.boot_rom.some
                      THEN Index(bus.boot_rom.data, BOOT_ROM_SIZE, last'.address)
                      ELSE Ok(last'.value)]_vars

\* C34 witness: the boot ROM is unmapped and 0xA5 has been written to 0x00FF:
\* the fixed ROM bank holds it and a read of 0x00FF returns it.
C34_Witness ==
    /\ ~bus.boot_rom.some
    /\ last.kind = "write_byte"
    /\ last.address = BOOT_ROM_END
    /\ last.value = 165
    /\ status = "running"
    /\ read_byte(bus, BOOT_ROM_END) = Ok(165)

\* the boot ROM is mapped, the fixed ROM bank holds 0xA5 at address 0 and a
\* read of address 0 has returned the 0 of the boot ROM
BootShadows ==
    /\ bus.boot_rom.some
    /\ Index(bus.rom_bank_0, GAME_ROM_BANK_0_SIZE, 0) = Ok(165)
    /\ last.kind = "read_byte" /\ last.address = 0 /\ last.value = 0

(* Video memory read through the bus *)

\* C35: for every address a of 0x8000..0x9FFF, write_byte(a, v) stores v at
\* offset a - 0x8000 of the video memory and read_byte(a) returns the byte at
\* that offset, so that a read after a write returns the byte written.
C35_VramReadWriteSameCell ==
    /\ (last.kind = "write_byte" /\ InRange(last.address, VRAM_BEGIN, VRAM_END))
        => /\ status = "running"
           /\ Index(bus.gpu.vram, VRAM_SIZE, last.address - VRAM_BEGIN) = Ok(last.value)
           /\ read_byte(bus, last.address) = Ok(last.value)
    /\ (last.kind = "read_byte" /\ InRange(last.address, VRAM_BEGIN, VRAM_END))
        => /\ status = "running"
           /\ last.value = Index(bus.gpu.vram, VRAM_SIZE, last.address - VRAM_BEGIN).value

\* write_byte(a, v) for a in 0x8000..0x9FFF stores v at offset a - 0x8000
VramWriteUsesOffset ==
    (last.kind = "write_byte" /\ InRange(last.address, VRAM_BEGIN, VRAM_END))
        => /\ status = "running"
           /\ Index(bus.gpu.vram, VRAM_SIZE, last.address - VRAM_BEGIN) = Ok(last.value)

\* 0xA5 has been written to 0x8000 and is at offset 0 of the video memory
VramWritten ==
    /\ last.kind = "write_byte"
    /\ last.address = VRAM_BEGIN
    /\ last.value = 165
    /\ status = "running"
    /\ VramByte(0) = 165

(* The frame of a video-memory write *)

\* C36: a video-memory write at offset a stores the byte at a and changes no
\* other byte; for a < 0x1800 the tile index a / 16 is below 384, the paired
\* byte is inside the store and no tile row but row (a % 16) / 2 of tile
\* a / 16 changes; for a >= 0x1800 the tile cache is unchanged.
C36_VramWriteOneTileRow ==
    [][last'.kind = "write_byte"
        => \E a \in {last'.address - VRAM_BEGIN} :
            /\ status' = "running"
            /\ read_vram(bus'.gpu, a) = Ok(last'.value)
            /\ \A o \in (DOMAIN bus.gpu.vram \cup DOMAIN bus'.gpu.vram) \ {a} :
                    read_vram(bus'.gpu, o) = read_vram(bus.gpu, o)
            /\ bus'.gpu.oam = bus.gpu.oam
            /\ IF a < TILESET_STORAGE_END
               THEN /\ a \div 16 < TILE_COUNT
                    /\ (a - (a % 2)) + 1 < VRAM_SIZE
                    /\ \A k \in (DOMAIN bus.gpu.tile_set \cup DOMAIN bus'.gpu.tile_set)
                                    \ {<<a \div 16, (a % 16) \div 2>>} :
                            TileRow(bus'.gpu, k[1], k[2]) = TileRow(bus.gpu, k[1], k[2])
               ELSE bus'.gpu.tile_set = bus.gpu.tile_set]_vars

\* C36 witness: after 0xFF at offset 0, 0xA5 has been written at offset 16:
\* row 0 of tile 1 has changed and row 0 of tile 0 is as the first write left it.
C36_Witness ==
    /\ steps = 2
    /\ last.kind = "write_byte"
    /\ last.address = VRAM_BEGIN + 16
    /\ last.value = 165
    /\ status = "running"
    /\ TileRow(bus.gpu, 0, 0) = [p \in 0..7 |-> "One"]
    /\ TileRow(bus.gpu, 1, 0) # EmptyRow
    /\ DOMAIN bus.gpu.tile_set = {<<0, 0>>, <<1, 0>>}

(* Sra *)

C38_RomReadsInBounds ==
    /\ (/\ last.kind = "read_byte"
        /\ InRange(last.address, GAME_ROM_BANK_0_START, GAME_ROM_BANK_0_END)
        /\ (InRange(last.address, BOOT_ROM_START, BOOT_ROM_END) => ~bus.boot_rom.some))
        => /\ status = "running"
           /\ last.value = Index(bus.rom_bank_0, GAME_ROM_BANK_0_SIZE + 1, last.address).value
    /\ (last.kind = "read_byte"
            /\ InRange(last.address, GAME_ROM_BANK_N_START, GAME_ROM_BANK_N_END))
        => /\ status = "running"
           /\ last.value = Index(bus.rom_bank_n, GAME_ROM_BANK_N_SIZE + 1,
                                 last.address - GAME_ROM_BANK_N_START).value

\* reads of 0x0000..0x3FFE of the fixed ROM bank stay inside its store
RomBank0ReadsBelowLast ==
    (/\ last.kind = "read_byte"
     /\ InRange(last.address, GAME_ROM_BANK_0_START, GAME_ROM_BANK_0_END - 1)
     /\ (InRange(last.address, BOOT_ROM_START, BOOT_ROM_END) => ~bus.boot_rom.some))
        => /\ status = "running"
           /\ last.value = Index(bus.rom_bank_0, GAME_ROM_BANK_0_SIZE + 1, last.address).value

(* The stack pointer *)

\* Cpu::default(), under both values of the four flags
InitSp ==
    \E f \in FlagsInputs :
        InitCpu([RegistersDefault EXCEPT !.f = f], CpuDefault.pc, BusDefault)

\* every operation of enum Instruction: the stack and the control-flow
\* instructions in all their forms, the others on one operand each
SpInstructions ==
    StackInstructions \cup CallRetInstructions \cup JpInstructions
    \cup {I0(op) : op \in {"Nop", "Halt", "Ccf", "Scf", "Cpl", "Rra", "Rla", "Rrca", "Rlca"}}
    \cup {I1(op, "B") : op \in {"Add", "Adc", "Sub", "Sbc", "Cp", "And", "Or", "Xor", "Inc",
                                "Dec", "Rr", "Rl", "Rrc", "Rlc", "Srl", "Sra", "Sla", "Swap"}}
    \cup {I1("AddHl", "HL")}
    \cup {IBit(op, U3_wrap(7), "B") : op \in {"Bit", "Res", "Set"}}
    \cup {ILd("A", "D8"), ILd("Hli", "A"), ILd("B", "Hli"),
          Instr("Ld", "-", 0, "Word", "-")}

NextSp == RunInstruction(SpInstructions)

SpecSp == InitSp /\ [][NextSp]_vars

\* C39: sp is 0xFFFF at the start, and a step that completes changes it by 2
\* modulo 65536, down in Push and in a Call taken, up in Pop and in a Ret
\* taken, and leaves it as it was in every other instruction, in a Call or a
\* Ret not taken, and in every step of a halted CPU.
C39_SpChangesByTwo ==
    /\ sp = 65535
    /\ [][(last'.kind = "run" /\ status' = "running")
            => \E op \in {last'.instruction.op} :
                sp' = IF is_halted THEN sp
                      ELSE IF \/ op = "Push"
                              \/ (op = "Call"
                                    /\ get_jump_test_result(Cpu, last'.instruction.r))
                      THEN (sp - 2) % 65536
                      ELSE IF \/ op = "Pop"
                              \/ (op = "Ret"
                                    /\ get_jump_test_result(Cpu, last'.instruction.r))
                      THEN (sp + 2) % 65536
                      ELSE sp]_vars

\* C39 witness: from sp = 0xFFFF, a Push, a Call taken and a Pop have run:
\* sp is 0xFFFD.
C39_Witness ==
    /\ steps = 3
    /\ last.kind = "run"
    /\ last.instruction.op = "Pop"
    /\ last.value = 65531
    /\ sp = 65533
    /\ status = "running"
    /\ ~is_halted

\* a Ret not taken has run with sp below 0xFFFF
RetNotTaken ==
    /\ last.kind = "run"
    /\ last.instruction = I1("Ret", "Zero")
    /\ ~registers.f.zero
    /\ last.value = 65533
    /\ sp = 65533
    /\ status = "running"

====
